---- MODULE Spec2Model ----
(***************************************************************************)
(* A model of the HEPunion (PierreFS) union file system: a read-only       *)
(* branch and a read-write branch merged into one tree, with whiteouts     *)
(* (.wh.NAME), metadata sidecars (.me.NAME) and copy-up.                   *)
(*                                                                         *)
(* Strings are sequences of tokens.  The token "/" is the path separator,  *)
(* ".wh." and ".me." are the reserved prefixes, every other token is a     *)
(* run of ordinary characters.  String concatenation is \o, so a path      *)
(* built without a separator is a different string from one built with it. *)
(* A path handed to a branch names the branch and the branch-relative      *)
(* string: [br |-> "ro" or "rw", p |-> string].                            *)
(***************************************************************************)
EXTENDS Integers, Sequences, FiniteSets, TLC

(* ---- errno values and flag bits used by the driver ---- *)
ENOENT == 2
EIO == 5
ENOMEM == 12
EACCES == 13
EEXIST == 17
ENOTDIR == 20
EISDIR == 21
EINVAL == 22
ENOTEMPTY == 39

READ_ONLY == 0
READ_WRITE == 1
READ_WRITE_COPYUP == 2

CREATE_COPYUP == 1
MUST_READ_WRITE == 2
MUST_READ_ONLY == 4
IGNORE_WHITEOUT == 8

MAY_EXEC == 1
MAY_WRITE == 2
MAY_READ == 4

S_IRUSR == \o400

(* ---- bit operations on small naturals ---- *)
RECURSIVE BitAnd(_, _)
BitAnd(a, b) ==
    IF a = 0 \/ b = 0 THEN 0
    ELSE (IF a % 2 = 1 /\ b % 2 = 1 THEN 1 ELSE 0) + 2 * BitAnd(a \div 2, b \div 2)

is_flag_set(f, s) == BitAnd(f, s) = s

(* ---- strings ---- *)
SLASH == "/"
WH == ".wh."
ME == ".me."
DOT == "."
DOTDOT == ".."

(* strrchr(p, '/'): position of the last separator, 0 when there is none *)
RECURSIVE strrchr(_, _)
strrchr(p, i) == IF i = 0 THEN 0 ELSE IF p[i] = SLASH THEN i ELSE strrchr(p, i - 1)

LastSlash(p) == strrchr(p, Len(p))

is_whiteout(name) == Len(name) > 1 /\ name[1] = WH
(* is_special: "." and ".." only; whiteouts and sidecars are not special *)
is_special(name) == name = <<DOT>> \/ name = <<DOTDOT>>

(* path_to_special: directory part (with its separator), prefix, last name *)
path_to_special(path, type) ==
    LET k == LastSlash(path) IN
    [br |-> "rw", p |-> SubSeq(path, 1, k) \o <<type>> \o SubSeq(path, k + 1, Len(path))]

make_ro_path(path) == [br |-> "ro", p |-> path]
make_rw_path(path) == [br |-> "rw", p |-> path]

(* get_relative_path: the union path of a dentry, components joined by "/" *)
RECURSIVE JoinPath(_)
JoinPath(comps) ==
    IF comps = <<>> THEN <<>> ELSE <<SLASH>> \o Head(comps) \o JoinPath(Tail(comps))

get_relative_path(comps) == IF comps = <<>> THEN <<SLASH>> ELSE JoinPath(comps)

(* get_relative_path_for_file: the directory's path with the name appended
   by strncat, no separator in between *)
get_relative_path_for_file(dir, name) == get_relative_path(dir) \o name

(* ---- a branch: a map from resolved paths (sequences of names) to nodes ---- *)
(* Kernel path walk of a string: split at "/", skip empty names and ".",
   step back on "..". *)
RECURSIVE Walk(_, _, _)
Walk(p, acc, cur) ==
    LET push == IF cur = <<>> \/ cur = <<DOT>> THEN acc
                ELSE IF cur = <<DOTDOT>>
                     THEN (IF acc = <<>> THEN acc ELSE SubSeq(acc, 1, Len(acc) - 1))
                     ELSE Append(acc, cur)
    IN IF p = <<>> THEN push
       ELSE IF Head(p) = SLASH THEN Walk(Tail(p), push, <<>>)
       ELSE Walk(Tail(p), acc, Append(cur, Head(p)))

Canon(p) == Walk(p, <<>>, <<>>)

TrailingSlash(p) == Len(p) > 1 /\ p[Len(p)] = SLASH

Branch(w, rp) == IF rp.br = "ro" THEN w.ro ELSE w.rw

ParentKey(k) == SubSeq(k, 1, Len(k) - 1)

(* kern_path / vfs_lstat result: 0 when the string resolves, else -errno *)
kern_path_at(fs, p, k) ==
    IF k \in DOMAIN fs
    THEN (IF TrailingSlash(p) /\ fs[k].type # "dir" THEN -ENOTDIR ELSE 0)
    ELSE IF \E i \in 1..Len(k) - 1 :
              SubSeq(k, 1, i) \in DOMAIN fs /\ fs[SubSeq(k, 1, i)].type # "dir"
         THEN -ENOTDIR
         ELSE -ENOENT

kern_path(fs, p) == kern_path_at(fs, p, Canon(p))

Node(fs, p) == fs[Canon(p)]

(* names held by a directory of a branch, "." and ".." included *)
Entries(fs, k) ==
    {<<DOT>>, <<DOTDOT>>} \cup
    {c[Len(c)] : c \in {c \in DOMAIN fs : Len(c) = Len(k) + 1 /\ ParentKey(c) = k}}

(* ---- the world a handler runs in ----
   ro, rw      : the two branches
   uid, gid    : fsuid / fsgid of the calling thread
   suid, sgid  : context->uid / context->gid, the credentials push_root saved
   cur         : the calling thread
   cnt, owner, spin : context->id_lock (count, owner, spin lock held)
   halt        : "" while the thread runs, "oops" after a fault in the kernel,
                 "hang" when it spins on a spin lock nobody will release,
                 "bug" after an assertion that failed
   nlink       : i_nlink of the union inodes of the directories
   fault       : what the kernel refuses the thread in this call: "io" a read
                 or write of file content, "attr" a notify_change of a new
                 entry, "inode" a new_inode; "none" otherwise and once it
                 has been refused
   buf         : context->buffers_in_use
   Every step of a function that computes a value from an earlier step takes
   that value as a parameter: op_step(..., earlier). *)
Running(w) == w.halt = ""

Halt(w, how) == IF Running(w) THEN [w EXCEPT !.halt = how] ELSE w

recursive_mutex_lock(w) ==
    LET c == w.cnt + 1 IN
    IF ~Running(w) THEN w
    ELSE IF c = 1
    THEN (IF w.spin THEN Halt([w EXCEPT !.cnt = c], "hang")
          ELSE [w EXCEPT !.cnt = c, !.spin = TRUE, !.owner = w.cur])
    ELSE IF w.owner # w.cur
    THEN (IF w.spin THEN Halt([w EXCEPT !.cnt = c], "hang")
          ELSE [w EXCEPT !.cnt = c, !.spin = TRUE])
    ELSE [w EXCEPT !.cnt = c]

recursive_mutex_unlock(w) ==
    LET c == w.cnt - 1 IN
    IF ~Running(w) THEN w
    ELSE IF c = 0 THEN [w EXCEPT !.cnt = c, !.owner = 0, !.spin = FALSE]
    ELSE [w EXCEPT !.cnt = c]

(* push_root once the lock is taken: the thread's ids are saved in the
   context, whatever the context held, and replaced by root's *)
push_root_locked(l) ==
    IF ~Running(l) THEN l
    ELSE [l EXCEPT !.suid = l.uid, !.sgid = l.gid, !.uid = 0, !.gid = 0]

push_root(w) == push_root_locked(recursive_mutex_lock(w))

pop_root(w) ==
    IF ~Running(w) THEN w
    ELSE recursive_mutex_unlock([w EXCEPT !.uid = w.suid, !.gid = w.sgid])

(* push_root(); <a read of a branch>; pop_root(); *)
as_root(w) == pop_root(push_root(w))

(* the result of a step, its world put through pop_root *)
Popped(r) == [r EXCEPT !.w = pop_root(@)]

(* the kernel refuses the thread the operation f, once *)
Fails(w, f) == Running(w) /\ w.fault = f

Faulted(w) == [w EXCEPT !.fault = "none"]

Faulty(w, f) == IF Running(w) THEN [w EXCEPT !.fault = f] ELSE w

(* assert(e): BUG_ON stops the thread *)
assert(w, e) == IF e THEN w ELSE Halt(w, "bug")

(* the two path buffers of the context are marked in use on entry to a
   handler and released before each of its return statements *)
will_use_buffers_marked(a) == IF ~Running(a) THEN a ELSE [a EXCEPT !.buf = 1]

will_use_buffers(w) == will_use_buffers_marked(assert(w, w.buf = 0))

release_buffers_cleared(a) == IF ~Running(a) THEN a ELSE [a EXCEPT !.buf = 0]

release_buffers_skipped(w) == w

release_buffers(w) == release_buffers_cleared(assert(w, w.buf = 1))

(* the link count of a union inode of a directory *)
inc_nlink(w, dir) == IF ~Running(w) THEN w ELSE [w EXCEPT !.nlink[dir] = @ + 1]

drop_nlink(w, dir) == IF ~Running(w) THEN w ELSE [w EXCEPT !.nlink[dir] = @ - 1]

set_nlink(w, inode, n) ==
    IF ~Running(w) \/ inode \notin DOMAIN w.nlink THEN w ELSE [w EXCEPT !.nlink[inode] = n]

(* ---- branch primitives (the lower file systems) ---- *)
SetBranch(w, br, fs) ==
    IF ~Running(w) THEN w
    ELSE IF br = "ro" THEN [w EXCEPT !.ro = fs] ELSE [w EXCEPT !.rw = fs]

(* permission check of the lower file system for the thread's credentials *)
lower_permission(w, n, mask) ==
    LET m == IF w.uid = n.uid THEN mask * 64
             ELSE IF w.gid = n.gid THEN mask * 8 ELSE mask
    IN w.uid = 0 \/ BitAnd(m, n.mode) = m

(* search permission on every directory above the resolved path *)
lower_may_walk(w, fs, k) ==
    \A i \in 0..Len(k) - 1 :
        SubSeq(k, 1, i) \in DOMAIN fs => lower_permission(w, fs[SubSeq(k, 1, i)], MAY_EXEC)

NoPath == [br |-> "none", p |-> <<>>]

(* the inode number the lower file system gives a new inode *)
NextIno(fs) == 1 + CHOOSE m \in {fs[k].ino : k \in DOMAIN fs} :
                       \A k \in DOMAIN fs : fs[k].ino <= m

(* ino: the inode of the lower file system, shared by the names hard-linked
   to it; target: what a symbolic link holds *)
NewNode(w, fs, type, mode) ==
    [type |-> type, mode |-> mode, uid |-> w.uid, gid |-> w.gid,
     atime |-> 0, mtime |-> 0, data |-> <<>>, ino |-> NextIno(fs), target |-> NoPath]

(* a change of an inode shows under every name linked to it *)
SetNode(fs, k, n) == [x \in DOMAIN fs |-> IF fs[x].ino = fs[k].ino THEN n ELSE fs[x]]

Put(fs, k, n) == [x \in DOMAIN fs \cup {k} |-> IF x = k THEN n ELSE fs[x]]

Del(fs, k) == [x \in DOMAIN fs \ {k} |-> fs[x]]

(* can a new entry be made at this string with the thread's credentials:
   0, or -errno *)
may_create_at(w, fs, p, k) ==
    IF k = <<>> \/ k \in DOMAIN fs THEN -EEXIST
    ELSE IF ParentKey(k) \notin DOMAIN fs THEN kern_path(fs, p)
    ELSE IF fs[ParentKey(k)].type # "dir" THEN -ENOTDIR
    ELSE IF ~lower_may_walk(w, fs, k) THEN -EACCES
    ELSE IF ~lower_permission(w, fs[ParentKey(k)], MAY_WRITE) THEN -EACCES
    ELSE 0

may_create(w, fs, p) == may_create_at(w, fs, p, Canon(p))

(* the entry is made when may_create allowed it: [w, err] *)
make_at(w, rp, k, type, mode, e) ==
    IF e < 0 THEN [w |-> w, err |-> e]
    ELSE [w |-> SetBranch(w, rp.br, Put(Branch(w, rp), k, NewNode(w, Branch(w, rp), type, mode))),
          err |-> 0]

(* filp_open(p, O_CREAT | O_WRONLY | O_TRUNC, mode) with the thread's
   credentials; [w, err] *)
filp_creat_at(w, rp, mode, fs, k) ==
    IF k \in DOMAIN fs
    THEN IF fs[k].type = "dir" \/ TrailingSlash(rp.p) THEN [w |-> w, err |-> -EISDIR]
         ELSE IF ~lower_may_walk(w, fs, k) \/ ~lower_permission(w, fs[k], MAY_WRITE)
         THEN [w |-> w, err |-> -EACCES]
         ELSE [w |-> SetBranch(w, rp.br, SetNode(fs, k, [fs[k] EXCEPT !.data = <<>>])), err |-> 0]
    ELSE make_at(w, rp, k, "reg", mode, may_create_at(w, fs, rp.p, k))

filp_creat(w, rp, mode) == filp_creat_at(w, rp, mode, Branch(w, rp), Canon(rp.p))

(* notify_change on a resolved entry: the fields named by valid are set *)
SetAttr(n, valid, attr) ==
    [n EXCEPT !.mode = IF "mode" \in valid THEN attr.mode ELSE @,
              !.uid = IF "uid" \in valid THEN attr.uid ELSE @,
              !.gid = IF "gid" \in valid THEN attr.gid ELSE @,
              !.atime = IF "atime" \in valid THEN attr.atime ELSE @,
              !.mtime = IF "mtime" \in valid THEN attr.mtime ELSE @,
              !.data = IF "size" \in valid /\ n.type = "reg"
                       THEN SubSeq(@, 1, attr.size) ELSE @]

notify_change_at(w, rp, valid, attr, fs, k) ==
    IF k \in DOMAIN fs THEN SetBranch(w, rp.br, SetNode(fs, k, SetAttr(fs[k], valid, attr)))
    ELSE w

notify_change(w, rp, valid, attr) ==
    notify_change_at(w, rp, valid, attr, Branch(w, rp), Canon(rp.p))

(* lstat: [err, st] of a branch path, read as root *)
Stat(n) ==
    [type |-> n.type, mode |-> n.mode, uid |-> n.uid, gid |-> n.gid,
     atime |-> n.atime, mtime |-> n.mtime, size |-> Len(n.data)]

NoStat == [type |-> "none", mode |-> 0, uid |-> 0, gid |-> 0,
           atime |-> 0, mtime |-> 0, size |-> 0]

lstat_at(fs, p, e) == [err |-> e, st |-> IF e = 0 THEN Stat(Node(fs, p)) ELSE NoStat]

lstat(w, rp) == lstat_at(Branch(w, rp), rp.p, kern_path(Branch(w, rp), rp.p))

check_exist(w, rp) == kern_path(Branch(w, rp), rp.p)

(* mkdir / mknod helpers: the parent is looked up under push_root and the
   entry is made under push_root, so root owns it *)
make_node_as(w2, rp, type, mode) ==
    Popped(make_at(w2, rp, Canon(rp.p), type, mode, may_create(w2, Branch(w2, rp), rp.p)))

make_node(w, rp, type, mode) == make_node_as(push_root(as_root(w)), rp, type, mode)

mkdir(w, rp, mode) == make_node(w, rp, "dir", mode)

(* unlink / rmdir helpers: the entry is looked up and removed as root *)
unlink_at(w1, rp, fs, k, e) ==
    IF e < 0 THEN [w |-> w1, err |-> e]
    ELSE IF fs[k].type = "dir" THEN [w |-> w1, err |-> -EISDIR]
    ELSE [w |-> pop_root(SetBranch(push_root(w1), rp.br, Del(fs, k))), err |-> 0]

unlink(w, rp) ==
    unlink_at(as_root(w), rp, Branch(w, rp), Canon(rp.p), kern_path(Branch(w, rp), rp.p))

rmdir_at(w1, rp, fs, k, e) ==
    IF e < 0 THEN [w |-> w1, err |-> e]
    ELSE IF fs[k].type # "dir" THEN [w |-> w1, err |-> -ENOTDIR]
    ELSE IF Entries(fs, k) # {<<DOT>>, <<DOTDOT>>} \/ k = <<>>
    THEN [w |-> w1, err |-> -ENOTEMPTY]
    ELSE [w |-> pop_root(SetBranch(push_root(w1), rp.br, Del(fs, k))), err |-> 0]

rmdir(w, rp) ==
    rmdir_at(as_root(w), rp, Branch(w, rp), Canon(rp.p), kern_path(Branch(w, rp), rp.p))

(* ---- metadata sidecars: lookup and merge ---- *)
(* find_me: the result of vfs_lstat on the sidecar, 0 or -errno *)
find_me(w, path) == lstat(w, path_to_special(path, ME)).err

me_present(r) == r > 0

(* the attributes of the real file, the sidecar's merged in when me is set *)
merge_me(real, me, kstme) ==
    IF real.err < 0 THEN real
    ELSE IF me
    THEN [err |-> 0,
          st |-> [real.st EXCEPT !.uid = kstme.uid, !.gid = kstme.gid,
                                 !.atime = kstme.atime, !.mtime = kstme.mtime,
                                 !.mode = kstme.mode]]
    ELSE [err |-> 0, st |-> real.st]

get_file_attr_worker(w, path, rp) ==
    merge_me(lstat(w, rp), me_present(find_me(w, path)),
             lstat(w, path_to_special(path, ME)).st)

(* ---- permission model ---- *)
can_access_st(w, st, mode) ==
    LET xbits == BitAnd(MAY_EXEC, st.mode) # 0 \/ BitAnd(MAY_EXEC * 8, st.mode) # 0
                 \/ BitAnd(MAY_EXEC * 64, st.mode) # 0
        m == IF w.uid = st.uid THEN mode * 64
             ELSE IF w.gid = st.gid THEN mode * 8 ELSE mode
    IN IF w.uid = 0 /\ BitAnd(mode, MAY_EXEC) # 0 /\ xbits THEN 0
       ELSE IF w.uid = 0 /\ BitAnd(mode, MAY_EXEC) = 0 THEN 0
       ELSE IF BitAnd(m, st.mode) = m THEN 0 ELSE -EACCES

can_access_attr(w, a, mode) == IF a.err # 0 THEN a.err ELSE can_access_st(w, a.st, mode)

can_access(w, path, rp, mode) == can_access_attr(w, get_file_attr_worker(w, path, rp), mode)

(* the real path cut before its last separator *)
dirname(rp) == [br |-> rp.br, p |-> SubSeq(rp.p, 1, LastSlash(rp.p) - 1)]

can_remove(w, path, rp) == can_access(w, path, dirname(rp), MAY_WRITE)

can_create(w, path, rp) == can_remove(w, path, rp)

(* position of the first separator of p at or after i, 0 when there is none *)
RECURSIVE strchr(_, _)
strchr(p, i) == IF i > Len(p) THEN 0 ELSE IF p[i] = SLASH THEN i ELSE strchr(p, i + 1)

(* the string before the separator at position directory *)
Prefix(path, directory) == SubSeq(path, 1, directory - 1)

(* e when it is an error, else the value the code goes on with *)
OrElse(e, v) == IF e < 0 THEN e ELSE v

RECURSIVE can_traverse_loop(_, _, _)
can_traverse_loop(w, path, directory) ==
    IF directory = 0 THEN 0
    ELSE OrElse(can_access(w, Prefix(path, directory),
                           make_ro_path(Prefix(path, directory)), MAY_EXEC),
                can_traverse_loop(w, path, strchr(path, directory + 1)))

can_traverse(w, path) ==
    IF LastSlash(path) = 1 THEN 0 ELSE can_traverse_loop(w, path, strchr(path, 2))

find_whiteout(w, path) == check_exist(w, path_to_special(path, WH))

(* ---- opening a branch file with the thread's credentials ---- *)
O_WRONLY == "O_WRONLY"
O_RDWR == "O_RDWR"
O_CREAT == "O_CREAT"
O_EXCL == "O_EXCL"
O_TRUNC == "O_TRUNC"

(* access the lower file system asks for: read unless write-only, write for
   write access and for truncation *)
open_acc(flags) ==
    (IF O_WRONLY \in flags THEN 0 ELSE MAY_READ)
    + (IF flags \cap {O_WRONLY, O_RDWR, O_TRUNC} # {} THEN MAY_WRITE ELSE 0)

filp_open_at(w, rp, flags, mode, fs, k, e) ==
    IF k \notin DOMAIN fs
    THEN IF O_CREAT \notin flags THEN [w |-> w, err |-> e]
         ELSE make_at(w, rp, k, "reg", mode, may_create_at(w, fs, rp.p, k))
    ELSE IF e < 0 THEN [w |-> w, err |-> e]
    ELSE IF {O_CREAT, O_EXCL} \subseteq flags THEN [w |-> w, err |-> -EEXIST]
    ELSE IF fs[k].type = "dir" /\ flags \cap {O_WRONLY, O_RDWR, O_CREAT, O_TRUNC} # {}
    THEN [w |-> w, err |-> -EISDIR]
    ELSE IF ~lower_may_walk(w, fs, k) \/ ~lower_permission(w, fs[k], open_acc(flags))
    THEN [w |-> w, err |-> -EACCES]
    ELSE IF O_TRUNC \in flags /\ fs[k].type = "reg"
    THEN [w |-> SetBranch(w, rp.br, SetNode(fs, k, [fs[k] EXCEPT !.data = <<>>])), err |-> 0]
    ELSE [w |-> w, err |-> 0]

filp_open_to(w, rp, flags, mode) ==
    filp_open_at(w, rp, flags, mode, Branch(w, rp), Canon(rp.p),
                 kern_path(Branch(w, rp), rp.p))

(* the last component is followed when it is a symbolic link, unless the
   open is exclusive *)
is_link(fs, k, flags) ==
    k \in DOMAIN fs /\ fs[k].type = "lnk" /\ ~({O_CREAT, O_EXCL} \subseteq flags)

filp_open(w, rp, flags, mode) ==
    IF ~is_link(Branch(w, rp), Canon(rp.p), flags) THEN filp_open_to(w, rp, flags, mode)
    ELSE IF ~lower_may_walk(w, Branch(w, rp), Canon(rp.p)) THEN [w |-> w, err |-> -EACCES]
    ELSE filp_open_to(w, Node(Branch(w, rp), rp.p).target, flags, mode)

(* dbg_open / dbg_open_2: refuse a path of the read-only branch when the
   flags ask for creation or write access *)
dbg_open_2(w, rp, flags, mode) ==
    IF flags \cap {O_CREAT, O_WRONLY, O_RDWR} # {} /\ rp.br = "ro"
    THEN [w |-> w, err |-> -EINVAL]
    ELSE filp_open(w, rp, flags, mode)

dbg_open(w, rp, flags) == dbg_open_2(w, rp, flags, 0)

dbg_creat(w, rp, mode) ==
    IF rp.br = "ro" THEN [w |-> w, err |-> -EINVAL] ELSE filp_creat(w, rp, mode)

dbg_mkdir(w, rp, mode) ==
    IF rp.br = "ro" THEN [w |-> w, err |-> -EINVAL] ELSE mkdir(w, rp, mode)

dbg_mknod(w, rp, type, mode) ==
    IF rp.br = "ro" THEN [w |-> w, err |-> -EINVAL] ELSE make_node(w, rp, type, mode)

(* ---- the resolver, parent materialisation and copy-up ---- *)
RECURSIVE find_file(_, _, _)

WithPath(r, rp) == [w |-> r.w, err |-> r.err, real_path |-> rp]

DirAttrs == {"atime", "mtime", "uid", "gid"}

(* the directory walk of find_path_worker from the separator at position
   directory on; [w, err] *)
RECURSIVE find_path_loop(_, _, _)

(* the directory was made on RW: it takes the RO directory's owner and times
   under a push_root whose pop_root ends the iteration *)
find_path_made(made, path, directory, kstbuf) ==
    IF made.err < 0 THEN made
    ELSE find_path_loop(
             pop_root(notify_change(push_root(as_root(made.w)),
                                    make_rw_path(Prefix(path, directory)), DirAttrs, kstbuf)),
             path, strchr(path, directory + 1))

(* the directory is missing on RW: lstat of the RO one, then mkdir *)
find_path_missing(w, path, directory, prev) ==
    IF prev.err < 0 THEN [w |-> as_root(w), err |-> prev.err]
    ELSE find_path_made(dbg_mkdir(as_root(w), make_rw_path(Prefix(path, directory)),
                                  prev.st.mode),
                        path, directory, prev.st)

find_path_loop(w, path, directory) ==
    IF directory = 0 THEN [w |-> w, err |-> 0]
    ELSE IF lstat(w, make_rw_path(Prefix(path, directory))).err >= 0
    THEN find_path_loop(pop_root(as_root(w)), path, strchr(path, directory + 1))
    ELSE find_path_missing(w, path, directory,
                           lstat(w, make_ro_path(Prefix(path, directory))))

(* find_path_worker once the tree path is resolved *)
find_path_tree(tree, path, real_path, last) ==
    IF tree.err < 0 THEN [w |-> tree.w, err |-> -tree.err, real_path |-> real_path]
    ELSE IF tree.err = READ_WRITE
    THEN [w |-> tree.w, err |-> 0, real_path |-> make_rw_path(path)]
    ELSE IF last = 1
    THEN [w |-> tree.w, err |-> 0, real_path |-> make_rw_path(<<SLASH>>)]
    ELSE WithPath(find_path_loop(tree.w, path, strchr(path, 2)), make_rw_path(path))

find_path_worker(w, path, real_path) ==
    find_path_tree(find_file(w, SubSeq(path, 1, LastSlash(path)), 0), path, real_path,
                   LastSlash(path))

find_path(w, path, real_path) == find_path_worker(w, path, real_path)

(* create_copyup: [w, err, real_path] *)
RECURSIVE create_copyup(_, _, _, _)

CopyAttrs == {"atime", "mtime", "uid", "gid", "mode"}

(* the sidecar, if there is one, goes once the copy has its attributes *)
(* the sidecar left where it is *)
copyup_finish_kept(set, path) == as_root(set)

copyup_finish(set, path) ==
    IF find_me(set, path) >= 0 THEN unlink(as_root(set), path_to_special(path, ME)).w
    ELSE as_root(set)

(* notify_change failed: vfs_unlink of the new entry, its result dropped *)
copyup_unset(w1, real_path) ==
    [w |-> unlink_at(w1, real_path, Branch(w1, real_path), Canon(real_path.p), 0).w,
     err |-> -EIO, real_path |-> real_path]

copyup_made(made, path, real_path, kstbuf) ==
    IF made.err < 0 THEN WithPath(made, real_path)
    ELSE IF Fails(made.w, "attr")
    THEN copyup_unset(as_root(as_root(Faulted(made.w))), real_path)
    ELSE [w |-> copyup_finish(pop_root(notify_change(push_root(as_root(made.w)),
                                                     real_path, CopyAttrs, kstbuf)),
                              path),
          err |-> 0, real_path |-> real_path]

(* the content is streamed from the RO file into the new RW file *)
copyup_data(rw_fd, ro_path, real_path) ==
    IF rw_fd.err < 0 THEN rw_fd
    ELSE IF Node(rw_fd.w.ro, ro_path.p).data # <<>> /\ Fails(rw_fd.w, "io")
    THEN [w |-> unlink(as_root(as_root(Faulted(rw_fd.w))), real_path).w, err |-> -EIO]
    ELSE [w |-> SetBranch(as_root(rw_fd.w), "rw",
                          SetNode(rw_fd.w.rw, Canon(real_path.p),
                                  [Node(rw_fd.w.rw, real_path.p) EXCEPT
                                       !.data = Node(rw_fd.w.ro, ro_path.p).data])),
          err |-> 0]

copyup_file(ro_fd, ro_path, real_path, mode) ==
    IF ro_fd.err < 0 THEN ro_fd
    ELSE copyup_data(dbg_open_2(ro_fd.w, real_path, {O_CREAT, O_WRONLY, O_EXCL}, mode),
                     ro_path, real_path)

(* copy_child: the callback of vfs_readdir on the RO directory *)
copy_child_made(cu) == [w |-> cu.w, err |-> cu.err]

copy_child(w, path, ro_path, name) ==
    IF is_special(name) THEN [w |-> w, err |-> 0]
    ELSE copy_child_made(create_copyup(w, path \o <<SLASH>> \o name,
                                       [ro_path EXCEPT !.p = @ \o <<SLASH>> \o name],
                                       NoPath))

(* vfs_readdir stops at the first name the callback fails on *)
RECURSIVE copy_children(_, _, _, _)

copy_children_next(c, rest, path, ro_path) ==
    IF c.err < 0 THEN c ELSE copy_children(c.w, rest, path, ro_path)

copy_children(w, names, path, ro_path) ==
    IF names = {} THEN [w |-> w, err |-> 0]
    ELSE copy_children_next(copy_child(w, path, ro_path, CHOOSE n \in names : TRUE),
                            names \ {CHOOSE n \in names : TRUE}, path, ro_path)

(* a directory: it is made on RW and every entry of the RO directory is
   copied up under it; on a failure unlink is called on the new directory *)
copyup_dir_read(c, real_path) ==
    IF c.err < 0 THEN [w |-> unlink(c.w, real_path).w, err |-> c.err] ELSE c

copyup_dir_opened(ro_fd, path, ro_path, real_path) ==
    IF ro_fd.err < 0 THEN [w |-> unlink(ro_fd.w, real_path).w, err |-> ro_fd.err]
    ELSE copyup_dir_read(Popped(copy_children(push_root(ro_fd.w),
                                              Entries(ro_fd.w.ro, Canon(ro_path.p)),
                                              path, ro_path)),
                         real_path)

copyup_dir(made, path, ro_path, real_path) ==
    IF made.err < 0 THEN made
    ELSE copyup_dir_opened(dbg_open(made.w, ro_path, {}), path, ro_path, real_path)

create_copyup_path(fp, path, ro_path, kstbuf) ==
    IF fp.err < 0 THEN fp
    ELSE copyup_made(IF kstbuf.type = "reg"
                     THEN copyup_file(dbg_open(fp.w, ro_path, {}), ro_path, fp.real_path,
                                      kstbuf.mode)
                     ELSE IF kstbuf.type = "dir"
                     THEN copyup_dir(dbg_mkdir(fp.w, fp.real_path, kstbuf.mode), path,
                                     ro_path, fp.real_path)
                     ELSE dbg_mknod(fp.w, fp.real_path, "fifo", kstbuf.mode),
                     path, fp.real_path, kstbuf)

copyup_attr(w, path, ro_path, rw_path, a) ==
    IF a.err < 0 THEN [w |-> as_root(w), err |-> a.err, real_path |-> rw_path]
    ELSE create_copyup_path(find_path(as_root(w), path, rw_path), path, ro_path, a.st)

create_copyup(w, path, ro_path, rw_path) ==
    copyup_attr(w, path, ro_path, rw_path, get_file_attr_worker(w, path, ro_path))

(* what hides the read-only entry from the resolver: -errno, or 0 *)
ro_hidden_at(w, path, flags, ro_err) ==
    IF ro_err < 0 THEN ro_err
    ELSE IF ~is_flag_set(flags, IGNORE_WHITEOUT) /\ find_whiteout(w, path) = 0 THEN -ENOENT
    ELSE OrElse(can_traverse(w, path), 0)

ro_hidden(w, path, flags) == ro_hidden_at(w, path, flags, check_exist(w, make_ro_path(path)))

find_file_copyup(cu) ==
    IF cu.err = 0 THEN [w |-> cu.w, err |-> READ_WRITE_COPYUP, real_path |-> cu.real_path]
    ELSE cu

(* the read-write branch does not settle it: the read-only branch is tried *)
find_file_ro(w, path, flags, hidden) ==
    IF is_flag_set(flags, CREATE_COPYUP)
    THEN (IF hidden < 0 THEN [w |-> as_root(w), err |-> hidden, real_path |-> make_rw_path(path)]
          ELSE find_file_copyup(create_copyup(as_root(w), path, make_ro_path(path),
                                              IF is_flag_set(flags, MUST_READ_ONLY)
                                              THEN NoPath ELSE make_rw_path(path))))
    ELSE [w |-> as_root(w), err |-> OrElse(hidden, READ_ONLY), real_path |-> make_ro_path(path)]

find_file(w, path, flags) ==
    IF ~is_flag_set(flags, MUST_READ_ONLY) /\ check_exist(w, make_rw_path(path)) >= 0
    THEN [w |-> as_root(w), err |-> OrElse(can_traverse(w, path), READ_WRITE),
          real_path |-> make_rw_path(path)]
    ELSE IF ~is_flag_set(flags, MUST_READ_ONLY) /\ is_flag_set(flags, MUST_READ_WRITE)
    THEN [w |-> as_root(w), err |-> check_exist(w, make_rw_path(path)),
          real_path |-> make_rw_path(path)]
    ELSE find_file_ro(w, path, flags, ro_hidden(w, path, flags))

(* ---- metadata sidecars: creation and update ---- *)
MeAttrs == {"uid", "gid", "atime", "mtime", "mode"}

(* the attributes the new sidecar gets: the times are the caller's only when
   both were asked for, and so are the owner and the group *)
me_attr(valid, attr, kstme) ==
    LET keep_time == {"atime", "mtime"} \subseteq valid
        keep_owner == {"uid", "gid"} \subseteq valid
    IN [attr EXCEPT !.atime = IF keep_time THEN @ ELSE kstme.atime,
                    !.mtime = IF keep_time THEN @ ELSE kstme.mtime,
                    !.uid = IF keep_owner THEN @ ELSE kstme.uid,
                    !.gid = IF keep_owner THEN @ ELSE kstme.gid]

set_me_created(fd, me_path, a1) ==
    IF fd.err < 0 THEN fd
    ELSE [w |-> pop_root(notify_change(push_root(fd.w), me_path, DirAttrs, a1)),
          err |-> 0]

set_me_path(fp, me_path, valid, attr, kstme) ==
    IF fp.err < 0 THEN [w |-> fp.w, err |-> fp.err]
    ELSE set_me_created(dbg_creat(fp.w, me_path,
                                  IF "mode" \in valid THEN attr.mode ELSE kstme.mode),
                        me_path, me_attr(valid, attr, kstme))

(* no sidecar was found: it is created from the real file's attributes *)
set_me_new(w, path, valid, attr, real) ==
    IF real.err < 0 THEN [w |-> as_root(w), err |-> real.err]
    ELSE set_me_path(find_path(as_root(w), path, NoPath), path_to_special(path, ME),
                     valid, attr, real.st)

(* a sidecar was found: the fields asked for are set on it *)
set_me_opened(opened, me_path, valid, attr) ==
    IF opened.err < 0 THEN opened
    ELSE [w |-> as_root(pop_root(notify_change(push_root(opened.w), me_path, valid, attr))),
          err |-> 0]

set_me_worker(w, path, real_path, valid, attr) ==
    IF ~me_present(find_me(w, path))
    THEN set_me_new(w, path, valid \cap MeAttrs, attr, lstat(w, real_path))
    ELSE set_me_opened(dbg_open(as_root(w), path_to_special(path, ME), {O_RDWR}),
                       path_to_special(path, ME), valid \cap MeAttrs, attr)

(* set_me: every attribute of kstbuf named by flags goes to the sidecar *)
set_me(w, path, real_path, kstbuf, flags) == set_me_worker(w, path, real_path, flags, kstbuf)

get_file_attr_found(w, path, f) ==
    IF f.err < 0 THEN [err |-> f.err, st |-> NoStat]
    ELSE get_file_attr_worker(w, path, f.real_path)

get_file_attr(w, path) == get_file_attr_found(w, path, find_file(w, path, 0))

(* ---- handlers: [w, ret, st] ---- *)
(* release_buffers(context); return ret; *)
Ret(w, ret) == [w |-> release_buffers(w), ret |-> ret, st |-> NoStat]

hepunion_lookup_found(f) == Ret(f.w, OrElse(f.err, 0))

hepunion_lookup(w, dir, name) ==
    hepunion_lookup_found(find_file(will_use_buffers(w), get_relative_path_for_file(dir, name), 0))

hepunion_getattr_attr(w, a) ==
    [w |-> release_buffers(as_root(w)), ret |-> a.err, st |-> a.st]

hepunion_getattr(w, comps) ==
    hepunion_getattr_attr(will_use_buffers(w),
                          get_file_attr(will_use_buffers(w), get_relative_path(comps)))

hepunion_setattr_me(sm) == Ret(sm.w, sm.err)

hepunion_setattr_found(f, path, valid, attr) ==
    IF f.err < 0 THEN Ret(f.w, f.err)
    ELSE IF f.err = READ_WRITE \/ f.err = READ_WRITE_COPYUP
    THEN Ret(pop_root(notify_change(push_root(f.w), f.real_path, valid, attr)), 0)
    ELSE hepunion_setattr_me(set_me_worker(f.w, path, f.real_path, valid, attr))

hepunion_setattr(w, comps, valid, attr) ==
    hepunion_setattr_found(find_file(will_use_buffers(w), get_relative_path(comps), 0),
                           get_relative_path(comps), valid, attr)

(* unlink_copyup: the copy goes, and its attributes go to a sidecar *)
unlink_copyup_found(f, path, kstbuf) ==
    IF f.err = -ENOENT THEN [w |-> f.w, err |-> 0]
    ELSE set_me(f.w, path, f.real_path, kstbuf, MeAttrs)

unlink_copyup_removed(u, path, kstbuf) ==
    IF u.err < 0 THEN u ELSE unlink_copyup_found(find_file(u.w, path, 0), path, kstbuf)

unlink_copyup_stat(w, path, copyup_path, k) ==
    IF k.err < 0 THEN [w |-> as_root(w), err |-> k.err]
    ELSE unlink_copyup_removed(unlink(as_root(w), copyup_path), path, k.st)

unlink_copyup(w, path, copyup_path) ==
    unlink_copyup_stat(w, path, copyup_path, lstat(w, copyup_path))

(* the file of the branch is opened; a copy-up that cannot be opened is undone *)
hepunion_open_real(o, f, path) ==
    IF o.err >= 0 THEN Ret(o.w, 0)
    ELSE IF f.err = READ_WRITE_COPYUP
    THEN Ret(unlink_copyup(o.w, path, f.real_path).w, o.err)
    ELSE Ret(o.w, o.err)

(* a copy-up was made: the caller must be allowed to create in the parent *)
hepunion_open_copyup(f, path, flags, cc) ==
    IF cc < 0 THEN Ret(unlink_copyup(f.w, path, f.real_path).w, cc)
    ELSE hepunion_open_real(dbg_open_2(f.w, f.real_path, flags, 0), f, path)

hepunion_open_found(f, path, flags) ==
    IF f.err < 0 THEN Ret(f.w, f.err)
    ELSE hepunion_open_copyup(f, path, flags,
                              IF f.err = READ_WRITE_COPYUP
                              THEN can_create(f.w, path, f.real_path) ELSE 0)

hepunion_open(w, comps, flags) ==
    hepunion_open_found(find_file(will_use_buffers(w), get_relative_path(comps),
                                  IF flags \cap {O_WRONLY, O_RDWR} # {}
                                  THEN CREATE_COPYUP ELSE 0),
                        get_relative_path(comps), flags)

(* hepunion_open from the point where find_file has the answer of its
   check of the read-write branch (rw_err) and goes on from it *)
find_file_resumed(w, path, flags, rw_err) ==
    IF rw_err >= 0
    THEN [w |-> w, err |-> OrElse(can_traverse(w, path), READ_WRITE),
          real_path |-> make_rw_path(path)]
    ELSE find_file_ro(w, path, flags, ro_hidden(w, path, flags))

hepunion_open_resumed(w, comps, flags, rw_err) ==
    hepunion_open_found(find_file_resumed(w, get_relative_path(comps),
                                          IF flags \cap {O_WRONLY, O_RDWR} # {}
                                          THEN CREATE_COPYUP ELSE 0,
                                          rw_err),
                        get_relative_path(comps), flags)

(* ---- whiteouts ---- *)
OwnerAttrs == {"uid", "gid"}

create_whiteout_unset(w1, wh_path) ==
    [w |-> pop_root(unlink_at(push_root(w1), wh_path, Branch(w1, wh_path),
                              Canon(wh_path.p), 0).w),
     err |-> -EIO]

(* the whiteout is created with the caller's credentials and handed to root;
   when the hand-over fails the file is closed and unlinked again *)
create_whiteout_made(fd, wh_path) ==
    IF fd.err < 0 THEN fd
    ELSE IF Fails(fd.w, "attr")
    THEN create_whiteout_unset(Faulted(fd.w), wh_path)
    ELSE [w |-> pop_root(notify_change(push_root(fd.w), wh_path, OwnerAttrs,
                                       [NoStat EXCEPT !.uid = 0, !.gid = 0])),
          err |-> 0]

create_whiteout_worker(w, wh_path) == create_whiteout_made(dbg_creat(w, wh_path, S_IRUSR), wh_path)

create_whiteout_path(fp, wh_path) ==
    IF fp.err < 0 THEN [w |-> fp.w, err |-> fp.err]
    ELSE create_whiteout_worker(fp.w, wh_path)

create_whiteout(w, path) ==
    create_whiteout_path(find_path(w, path, NoPath), path_to_special(path, WH))

(* a string read after kfree: what was written, or what the allocator left *)
Garbage == [br |-> "rw", p |-> <<"?">>]

AfterFree(rp, uaf) == IF uaf = "intact" THEN rp ELSE Garbage

unlink_whiteout(w, path, uaf) == unlink(w, AfterFree(path_to_special(path, WH), uaf))

create_me_made(fd, me_path, kstbuf) ==
    IF fd.err < 0 THEN fd
    ELSE [w |-> pop_root(notify_change(push_root(fd.w), me_path, MeAttrs, kstbuf)),
          err |-> 0]

(* the restoring call left out *)
create_me_skipped(w, me_path, kstbuf) == [w |-> w, err |-> 0]

create_me(w, me_path, kstbuf) == create_me_made(dbg_creat(w, me_path, kstbuf.mode), me_path, kstbuf)

(* unlink_rw_file: the RW entry goes; a whiteout is made when the resolver
   found the entry on RO as well, and what making it returns is dropped *)
unlink_rw_removed(u, has_ro, path) ==
    IF u.err < 0 THEN u
    ELSE [w |-> IF has_ro THEN create_whiteout(u.w, path).w ELSE u.w, err |-> 0]

unlink_rw_allowed(ro, path, rw_path, cr) ==
    IF cr < 0 THEN [w |-> as_root(ro.w), err |-> cr]
    ELSE unlink_rw_removed(unlink(as_root(ro.w), rw_path), ro.err >= 0, path)

unlink_rw_found(ro, path, rw_path) ==
    unlink_rw_allowed(ro, path, rw_path, can_remove(ro.w, path, rw_path))

unlink_rw_file(w, path, rw_path) ==
    unlink_rw_found(find_file(w, path, MUST_READ_ONLY), path, rw_path)

(* ---- directory emptiness ---- *)
(* check_whiteout on one name of the read-only directory: the name is joined
   to the directory's path without a separator, the buffers are freed before
   use, and kfree is handed the caller's stack object *)
check_whiteout(w, path, name, uaf) ==
    IF is_special(name) THEN 0
    ELSE IF uaf = "intact" THEN find_whiteout(w, path \o name)
    ELSE -ENOENT

check_writable(name) == IF is_whiteout(name) \/ is_special(name) THEN 0 ELSE -ENOTEMPTY

delete_whiteout(w, rw_path, name, uaf) ==
    unlink(w, AfterFree([br |-> "rw", p |-> rw_path.p \o name], uaf)).w

RECURSIVE delete_whiteouts(_, _, _, _)
delete_whiteouts(w, rw_path, names, uaf) ==
    IF names = {} THEN w
    ELSE LET n == CHOOSE x \in names : TRUE IN
         delete_whiteouts(delete_whiteout(w, rw_path, n, uaf), rw_path, names \ {n}, uaf)

(* the read-only directory is read under push_root, check_whiteout called on
   every name; vfs_readdir is taken to hand back the callback's error, as
   the caller expects of it *)
is_empty_ro_read(w1, path, real, u) ==
    IF real = {} THEN [w |-> pop_root(w1), err |-> 0]
    ELSE IF u.stack = "oops" THEN [w |-> Halt(w1, "oops"), err |-> 0]
    ELSE [w |-> pop_root(as_root(w1)),
          err |-> IF \E n \in real : check_whiteout(w1, path, n, u.uaf) < 0
                  THEN -ENOENT ELSE 0]

is_empty_ro_opened(fd, path, ro_path, u) ==
    IF fd.err < 0 THEN fd
    ELSE is_empty_ro_read(push_root(fd.w), path,
                          {n \in Entries(fd.w.ro, Canon(ro_path.p)) : ~is_special(n)}, u)

is_empty_ro(w, path, ro_path, u) == is_empty_ro_opened(dbg_open(w, ro_path, {}), path, ro_path, u)

(* the read-write directory is read under push_root: check_writable on every
   name, then delete_whiteout on every name (the second vfs_readdir is taken
   to list the directory again from its start, as the caller expects) *)
is_empty_rw_read(w1, rw_path, names, u) ==
    IF \E n \in names : check_writable(n) < 0 THEN [w |-> pop_root(w1), err |-> -ENOTEMPTY]
    ELSE [w |-> pop_root(delete_whiteouts(w1, rw_path, names, u.uaf)), err |-> 0]

is_empty_rw_opened(fd, rw_path, u) ==
    IF fd.err < 0 THEN fd
    ELSE is_empty_rw_read(push_root(fd.w), rw_path, Entries(fd.w.rw, Canon(rw_path.p)), u)

is_empty_rw(w, rw_path, u) == is_empty_rw_opened(dbg_open(w, rw_path, {}), rw_path, u)

(* is_empty_dir(path, ro_path, rw_path): either real path may be absent *)
is_empty_dir_ro(r, has_rw, rw_path, u) ==
    IF r.err < 0 \/ ~has_rw THEN r ELSE is_empty_rw(r.w, rw_path, u)

is_empty_dir(w, path, has_ro, ro_path, has_rw, rw_path, u) ==
    is_empty_dir_ro(IF has_ro THEN is_empty_ro(w, path, ro_path, u) ELSE [w |-> w, err |-> 0],
                    has_rw, rw_path, u)

(* ---- removal and creation ---- *)
(* an entry held by the read-only branch alone is removed: its sidecar goes,
   the whiteout is made, and the sidecar comes back when making it failed.
   has_me and kstbuf are written only when find_me found a sidecar *)
whiteout_ro_made(cw, me_path, has_me, kstbuf) ==
    IF cw.err < 0 /\ has_me THEN Ret(create_me(cw.w, me_path, kstbuf).w, cw.err)
    ELSE Ret(cw.w, cw.err)

whiteout_ro_me(um, path, has_me, kstbuf) ==
    IF um.err < 0 THEN Ret(um.w, um.err)
    ELSE whiteout_ro_made(create_whiteout(um.w, path), path_to_special(path, ME),
                          has_me, kstbuf)

whiteout_ro_found(w, path, u, me) ==
    whiteout_ro_me(IF me.err >= 0 THEN unlink(as_root(w), path_to_special(path, ME))
                   ELSE [w |-> as_root(w), err |-> 0],
                   path,
                   IF me.err >= 0 THEN TRUE ELSE u.has_me,
                   IF me.err >= 0 THEN me.st ELSE u.kst)

whiteout_ro(w, path, u) == whiteout_ro_found(w, path, u, lstat(w, path_to_special(path, ME)))

hepunion_unlink_ro(f, path, u, cr) ==
    IF cr < 0 THEN Ret(as_root(f.w), cr) ELSE whiteout_ro(f.w, path, u)

hepunion_unlink_rw(r) == Ret(r.w, r.err)

hepunion_unlink_found(f, path, u) ==
    IF f.err = READ_WRITE \/ f.err = READ_WRITE_COPYUP
    THEN hepunion_unlink_rw(unlink_rw_file(f.w, path, f.real_path))
    ELSE IF f.err # READ_ONLY THEN Ret(f.w, f.err)
    ELSE hepunion_unlink_ro(f, path, u, can_remove(f.w, path, f.real_path))

(* if (err == 0) drop_nlink(dir): the link count of the file's own inode is
   not kept *)
hepunion_unlink_done(r, dir) ==
    IF r.ret = 0 THEN [r EXCEPT !.w = drop_nlink(@, dir)] ELSE r

hepunion_unlink(w, dir, name, u) ==
    hepunion_unlink_done(
        hepunion_unlink_found(find_file(will_use_buffers(w),
                                        get_relative_path_for_file(dir, name), 0),
                              get_relative_path_for_file(dir, name), u),
        dir)

(* hepunion_rmdir, the directory on the read-write branch: when the rmdir
   fails, wh_path is unlinked, written or not *)
hepunion_rmdir_rw_removed(rd, wh_path) ==
    IF rd.err < 0 THEN Ret(unlink(rd.w, wh_path).w, rd.err) ELSE Ret(rd.w, rd.err)

hepunion_rmdir_rw_wh(wh, f, has_ro, path, empty_err) ==
    IF has_ro /\ wh.err < 0 THEN Ret(wh.w, empty_err)
    ELSE hepunion_rmdir_rw_removed(rmdir(wh.w, f.real_path),
                                   IF has_ro THEN path_to_special(path, WH) ELSE Garbage)

hepunion_rmdir_rw_empty(e, f, has_ro, path) ==
    IF ~Running(e.w) THEN Ret(e.w, 0)
    ELSE IF e.err < 0 THEN Ret(e.w, -ENOTEMPTY)
    ELSE hepunion_rmdir_rw_wh(IF has_ro THEN create_whiteout(e.w, path)
                              ELSE [w |-> e.w, err |-> 0],
                              f, has_ro, path, e.err)

hepunion_rmdir_rw_allowed(f, ro, path, u, cr) ==
    IF cr < 0 THEN Ret(as_root(ro.w), cr)
    ELSE hepunion_rmdir_rw_empty(is_empty_dir(ro.w, path, ro.err >= 0, ro.real_path,
                                              TRUE, f.real_path, u),
                                 f, ro.err >= 0, path)

hepunion_rmdir_rw(f, ro, path, u) ==
    hepunion_rmdir_rw_allowed(f, ro, path, u, can_remove(f.w, path, f.real_path))

(* hepunion_rmdir, the directory on the read-only branch: the call stops
   when can_remove grants the removal *)
hepunion_rmdir_ro_empty(e, path, u) ==
    IF ~Running(e.w) THEN Ret(e.w, 0)
    ELSE IF e.err < 0 THEN Ret(e.w, -ENOTEMPTY)
    ELSE whiteout_ro(e.w, path, u)

hepunion_rmdir_ro(f, path, u, cr) ==
    IF cr = 0 THEN Ret(as_root(f.w), f.err)
    ELSE hepunion_rmdir_ro_empty(is_empty_dir(as_root(f.w), path, TRUE, f.real_path,
                                              FALSE, NoPath, u),
                                 path, u)

hepunion_rmdir_found(f, path, u) ==
    IF f.err = READ_WRITE \/ f.err = READ_WRITE_COPYUP
    THEN hepunion_rmdir_rw(f, find_file(f.w, path, MUST_READ_ONLY), path, u)
    ELSE IF f.err # READ_ONLY THEN Ret(f.w, f.err)
    ELSE hepunion_rmdir_ro(f, path, u, can_remove(f.w, path, f.real_path))

hepunion_rmdir(w, dir, name, u) ==
    hepunion_rmdir_found(find_file(will_use_buffers(w), get_relative_path_for_file(dir, name), 0),
                         get_relative_path_for_file(dir, name), u)

(* hepunion_create: the file is made on the read-write branch, given to the
   caller, and the whiteout of its path is unlinked *)
hepunion_create_owned(w, real_path, path, u) ==
    IF Fails(w, "inode") THEN Ret(unlink(Faulted(w), real_path).w, -ENOMEM)
    ELSE Ret(unlink_whiteout(w, path, u.uaf).w, 0)

hepunion_create_made(filp, real_path, path, uid, gid, u) ==
    IF filp.err < 0 THEN Ret(filp.w, filp.err)
    ELSE IF Fails(filp.w, "attr")
    THEN Ret(unlink(as_root(Faulted(filp.w)), real_path).w, -EIO)
    ELSE hepunion_create_owned(pop_root(notify_change(push_root(filp.w), real_path,
                                                      OwnerAttrs,
                                                      [NoStat EXCEPT !.uid = uid,
                                                                     !.gid = gid])),
                               real_path, path, u)

hepunion_create_allowed(fp, path, mode, u, cc) ==
    IF cc < 0 THEN Ret(as_root(fp.w), cc)
    ELSE hepunion_create_made(dbg_creat(as_root(fp.w), fp.real_path, mode), fp.real_path,
                              path, fp.w.uid, fp.w.gid, u)

hepunion_create_path(fp, path, mode, u) ==
    IF fp.err < 0 THEN Ret(fp.w, fp.err)
    ELSE hepunion_create_allowed(fp, path, mode, u, can_create(fp.w, path, fp.real_path))

hepunion_create_found(f, path, mode, u) ==
    IF f.err >= 0 THEN Ret(f.w, -EEXIST)
    ELSE hepunion_create_path(find_path(f.w, path, f.real_path), path, mode, u)

(* the one return of 0 comes after inc_nlink(dir) *)
hepunion_create_inode(r, dir) ==
    IF r.ret = 0 THEN [r EXCEPT !.w = inc_nlink(@, dir)] ELSE r

hepunion_create(w, dir, name, mode, u) ==
    hepunion_create_inode(
        hepunion_create_found(find_file(will_use_buffers(w),
                                        get_relative_path_for_file(dir, name), 0),
                              get_relative_path_for_file(dir, name), mode, u),
        dir)

(* ---- link ---- *)
EXDEV == 18

(* symlink: the link is made under push_root; when the new name cannot be
   made the function returns inside the section *)
symlink_created(w1, oldname, newname, fs, e) ==
    IF ~Running(w1) THEN [w |-> w1, err |-> 0]
    ELSE IF e < 0 THEN [w |-> w1, err |-> e]
    ELSE [w |-> pop_root(SetBranch(w1, newname.br,
                                   Put(fs, Canon(newname.p),
                                       [NewNode(w1, fs, "lnk", \o777) EXCEPT
                                            !.target = oldname]))),
          err |-> 0]

symlink(w, oldname, newname) ==
    symlink_created(push_root(w), oldname, newname, Branch(w, newname),
                    may_create(push_root(w), Branch(w, newname), newname.p))

(* link: the old name is looked up without following a link, the new name
   is made the same inode, each under its own push_root / pop_root *)
link_found(w, oldname, newname, fs, e_old, e_new) ==
    IF e_old < 0 THEN [w |-> as_root(w), err |-> e_old]
    ELSE IF e_new < 0 THEN [w |-> as_root(w), err |-> e_new]
    ELSE IF oldname.br # newname.br THEN [w |-> as_root(w), err |-> -EXDEV]
    ELSE [w |-> as_root(SetBranch(w, newname.br,
                                  Put(fs, Canon(newname.p), Node(fs, oldname.p)))),
          err |-> 0]

link(w, oldname, newname) ==
    link_found(w, oldname, newname, Branch(w, newname),
               kern_path(Branch(w, oldname), oldname.p),
               may_create(push_root(w), Branch(w, newname), newname.p))

dbg_symlink(w, oldpath, newpath) ==
    IF newpath.br = "ro" THEN [w |-> w, err |-> -EINVAL] ELSE symlink(w, oldpath, newpath)

dbg_link(w, oldpath, newpath) ==
    IF newpath.br = "ro" THEN [w |-> w, err |-> -EINVAL] ELSE link(w, oldpath, newpath)

(* hepunion_link: a file of the read-only branch gets a symbolic link, a
   file of the read-write branch a hard link; then the whiteout of the new
   path is unlinked *)
hepunion_link_made(mk, to, u) ==
    IF mk.err < 0 THEN Ret(mk.w, mk.err) ELSE Ret(unlink_whiteout(mk.w, to, u.uaf).w, 0)

hepunion_link_path(fp, origin, to, u) ==
    IF fp.err < 0 THEN Ret(fp.w, fp.err)
    ELSE hepunion_link_made(IF origin.err = READ_ONLY
                            THEN dbg_symlink(fp.w, origin.real_path, fp.real_path)
                            ELSE dbg_link(fp.w, origin.real_path, make_rw_path(to)),
                            to, u)

hepunion_link_allowed(f, origin, to, u, cc) ==
    IF cc < 0 THEN Ret(as_root(f.w), cc)
    ELSE hepunion_link_path(find_path(as_root(f.w), to, f.real_path), origin, to, u)

hepunion_link_to(f, origin, to, u) ==
    IF f.err >= 0 THEN Ret(f.w, -EEXIST)
    ELSE hepunion_link_allowed(f, origin, to, u, can_create(f.w, to, f.real_path))

hepunion_link_from(origin, to, u) ==
    IF origin.err < 0 THEN Ret(origin.w, origin.err)
    ELSE hepunion_link_to(find_file(origin.w, to, 0), origin, to, u)

hepunion_link(w, old, dir, name, u) ==
    hepunion_link_from(find_file(will_use_buffers(w), get_relative_path(old), 0),
                       get_relative_path_for_file(dir, name), u)

(* hepunion_symlink: the link is made at the RW path of the new name and
   holds symname; then the whiteout of the new path is unlinked *)
hepunion_symlink_made(mk, to, u) ==
    IF mk.err < 0 THEN Ret(mk.w, mk.err) ELSE Ret(unlink_whiteout(mk.w, to, u.uaf).w, 0)

hepunion_symlink_path(fp, symname, to, u) ==
    IF fp.err < 0 THEN Ret(fp.w, fp.err)
    ELSE hepunion_symlink_made(dbg_symlink(fp.w, symname, fp.real_path), to, u)

hepunion_symlink_allowed(f, symname, to, u, cc) ==
    IF cc < 0 THEN Ret(as_root(f.w), cc)
    ELSE hepunion_symlink_path(find_path(as_root(f.w), to, make_rw_path(to)), symname, to, u)

hepunion_symlink_to(f, symname, to, u) ==
    IF f.err >= 0 THEN Ret(f.w, -EEXIST)
    ELSE hepunion_symlink_allowed(f, symname, to, u, can_create(f.w, to, make_rw_path(to)))

hepunion_symlink(w, dir, name, symname, u) ==
    hepunion_symlink_to(find_file(will_use_buffers(w), get_relative_path_for_file(dir, name), 0),
                        symname, get_relative_path_for_file(dir, name), u)

(* hepunion_mknod: no permission is checked before the node is made *)
hepunion_mknod_made(mk, path, u) ==
    IF mk.err < 0 THEN Ret(mk.w, mk.err) ELSE Ret(unlink_whiteout(mk.w, path, u.uaf).w, 0)

hepunion_mknod_path(fp, path, type, mode, u) ==
    IF fp.err < 0 THEN Ret(fp.w, fp.err)
    ELSE hepunion_mknod_made(dbg_mknod(fp.w, fp.real_path, type, mode), path, u)

hepunion_mknod_found(f, path, type, mode, u) ==
    IF f.err >= 0 THEN Ret(f.w, -EEXIST)
    ELSE hepunion_mknod_path(find_path(f.w, path, f.real_path), path, type, mode, u)

hepunion_mknod(w, dir, name, type, mode, u) ==
    hepunion_mknod_found(find_file(will_use_buffers(w), get_relative_path_for_file(dir, name), 0),
                         get_relative_path_for_file(dir, name), type, mode, u)

(* ---- mkdir ---- *)
(* hide_entry on the names of the read-only directory.  vfs_readdir is
   handed rw_path, a string, where hide_entry expects a readdir_context: the
   path and the context it reads are bytes of that string taken as pointers.
   The thread faults on them, or the creation at whatever they point to
   fails, or it makes a file outside the branches and reports success.  "."
   and ".." are not skipped, so there is always a name to hide. *)
hide_entries(w1, names, u) ==
    IF names = {} THEN [w |-> pop_root(w1), err |-> 0]
    ELSE IF u.cast = "oops" THEN [w |-> Halt(w1, "oops"), err |-> 0]
    ELSE [w |-> pop_root(w1), err |-> IF u.cast = "fail" THEN -ENOENT ELSE 0]

hide_directory_opened(fd, ro_path, u) ==
    IF fd.err < 0 THEN fd
    ELSE hide_entries(push_root(fd.w), Entries(fd.w.ro, Canon(ro_path.p)), u)

hide_directory_exist(w, ro_path, u, e) ==
    IF e < 0 THEN [w |-> as_root(w), err |-> IF e = -ENOENT THEN 0 ELSE e]
    ELSE hide_directory_opened(dbg_open(as_root(w), ro_path, {}), ro_path, u)

hide_directory_contents(w, path, u) ==
    hide_directory_exist(w, make_ro_path(path), u, check_exist(w, make_ro_path(path)))

(* hepunion_mkdir: the directory is made on the read-write branch, the
   entries of a read-only directory of the same path are hidden, and the
   whiteout of the path is unlinked *)
hepunion_mkdir_hidden(h, real_path, path, u) ==
    IF ~Running(h.w) THEN Ret(h.w, 0)
    ELSE IF h.err < 0 THEN Ret(rmdir(h.w, real_path).w, h.err)
    ELSE IF Fails(h.w, "inode") THEN Ret(rmdir(Faulted(h.w), real_path).w, -ENOMEM)
    ELSE Ret(unlink_whiteout(h.w, path, u.uaf).w, 0)

hepunion_mkdir_made(mk, real_path, path, u) ==
    IF mk.err < 0 THEN Ret(mk.w, mk.err)
    ELSE hepunion_mkdir_hidden(hide_directory_contents(mk.w, path, u), real_path, path, u)

hepunion_mkdir_path(fp, path, mode, u) ==
    IF fp.err < 0 THEN Ret(fp.w, fp.err)
    ELSE hepunion_mkdir_made(dbg_mkdir(fp.w, fp.real_path, mode), fp.real_path, path, u)

hepunion_mkdir_allowed(f, path, mode, u, cc) ==
    IF cc < 0 THEN Ret(as_root(f.w), cc)
    ELSE hepunion_mkdir_path(find_path(as_root(f.w), path, make_rw_path(path)), path, mode, u)

hepunion_mkdir_found(f, path, mode, u) ==
    IF f.err >= 0 THEN Ret(f.w, -EEXIST)
    ELSE hepunion_mkdir_allowed(f, path, mode, u, can_create(f.w, path, make_rw_path(path)))

(* the one return of 0 comes after inc_nlink(dir) and set_nlink(inode, 1) *)
hepunion_mkdir_inode(r, dir, name) ==
    IF r.ret = 0 THEN [r EXCEPT !.w = set_nlink(inc_nlink(@, dir), Append(dir, name), 1)]
    ELSE r

hepunion_mkdir(w, dir, name, mode, u) ==
    hepunion_mkdir_inode(
        hepunion_mkdir_found(find_file(will_use_buffers(w),
                                       get_relative_path_for_file(dir, name), 0),
                             get_relative_path_for_file(dir, name), mode, u),
        dir, name)

(* ---- directory handles ---- *)
(* name_to_ino: the murmur hash of a string.  An inode number is held as the
   string it was computed from: two numbers are equal when the hash was
   taken of the same string. *)
name_to_ino(n) == [murmur_hash_64a |-> n]

(* hepunion_lookup: the inode of the dentry has the number of the path the
   lookup built *)
hepunion_lookup_ino(dir, name) == name_to_ino(get_relative_path_for_file(dir, name))

(* hepunion_getattr: kstbuf->ino = dentry->d_inode->i_ino *)
hepunion_getattr_ino(dir, name) == hepunion_lookup_ino(dir, name)

is_me(name) == Len(name) > 1 /\ name[1] = ME

(* the private data of an open directory and its position: the two real
   paths opendir found, and the list readdir serves *)
NoHandle ==
    [open |-> FALSE, has_ro |-> FALSE, ro_path |-> NoPath, has_rw |-> FALSE,
     rw_path |-> NoPath, files |-> <<>>, f_pos |-> 0]

RetDir(w, ret, h) == [w |-> release_buffers(w), ret |-> ret, h |-> h]

hepunion_opendir_ro(rw, ro) ==
    RetDir(ro.w, 0,
           [open |-> TRUE, has_ro |-> ro.err >= 0, ro_path |-> ro.real_path,
            has_rw |-> rw.err >= 0, rw_path |-> rw.real_path, files |-> <<>>, f_pos |-> 0])

hepunion_opendir_rw(rw, path) == hepunion_opendir_ro(rw, find_file(rw.w, path, MUST_READ_ONLY))

hepunion_opendir_found(f, path) ==
    IF f.err < 0 THEN RetDir(f.w, f.err, NoHandle)
    ELSE hepunion_opendir_rw(find_file(f.w, path, MUST_READ_WRITE), path)

hepunion_opendir(w, comps) ==
    hepunion_opendir_found(find_file(will_use_buffers(w), get_relative_path(comps), 0),
                           get_relative_path(comps))

hepunion_closedir(w) == [w |-> w, ret |-> 0, h |-> NoHandle]

(* the names vfs_readdir hands to its callback, in the order the lower file
   system emits them *)
RECURSIVE Emitted(_)
Emitted(names) ==
    IF names = {} THEN <<>>
    ELSE <<CHOOSE n \in names : TRUE>> \o Emitted(names \ {CHOOSE n \in names : TRUE})

d_type(fs, k, name) == IF is_special(name) THEN "dir" ELSE fs[Append(k, name)].type

(* an entry of the list: its inode number is the hash of the directory's
   branch-relative path with the name copied behind it *)
readdir_file(dir_path, name, type) ==
    [d_name |-> name, type |-> type, ino |-> name_to_ino(dir_path.p \o name)]

Listed(list) == {list[i].d_name : i \in DOMAIN list}

(* read_rw_branch without the test for sidecars *)
read_rw_branch_lists_me(ctx, h, name, type) ==
    IF is_whiteout(name)
    THEN (IF h.has_ro THEN [ctx EXCEPT !.whiteouts = <<Tail(name)>> \o @] ELSE ctx)
    ELSE [ctx EXCEPT !.files = <<readdir_file(h.rw_path, name, type)>> \o @]

(* ctx: the lists under construction, files and whiteouts; list_add puts a
   new entry at the head *)
read_rw_branch(ctx, h, name, type) ==
    IF is_me(name) THEN ctx
    ELSE IF is_whiteout(name)
    THEN (IF h.has_ro THEN [ctx EXCEPT !.whiteouts = <<Tail(name)>> \o @] ELSE ctx)
    ELSE [ctx EXCEPT !.files = <<readdir_file(h.rw_path, name, type)>> \o @]

read_ro_branch(ctx, h, name, type) ==
    IF \E i \in DOMAIN ctx.whiteouts : ctx.whiteouts[i] = name THEN ctx
    ELSE IF name \in Listed(ctx.files) THEN ctx
    ELSE [ctx EXCEPT !.files = <<readdir_file(h.ro_path, name, type)>> \o @]

RECURSIVE readdir_rw_all(_, _, _, _, _)
readdir_rw_all(ctx, h, names, fs, k) ==
    IF names = <<>> THEN ctx
    ELSE readdir_rw_all(read_rw_branch(ctx, h, Head(names), d_type(fs, k, Head(names))),
                        h, Tail(names), fs, k)

RECURSIVE readdir_ro_all(_, _, _, _, _)
readdir_ro_all(ctx, h, names, fs, k) ==
    IF names = <<>> THEN ctx
    ELSE readdir_ro_all(read_ro_branch(ctx, h, Head(names), d_type(fs, k, Head(names))),
                        h, Tail(names), fs, k)

NoEntry == [d_name |-> <<>>, type |-> "none", ino |-> name_to_ino(<<>>)]

(* the entry at f_pos is handed to filldir and f_pos moves on by one *)
readdir_serve(w, h) ==
    IF h.f_pos < Len(h.files)
    THEN [w |-> w, ret |-> 0, h |-> [h EXCEPT !.f_pos = @ + 1], out |-> h.files[h.f_pos + 1]]
    ELSE [w |-> w, ret |-> 0, h |-> h, out |-> NoEntry]

(* a branch directory that cannot be opened: both lists are emptied *)
readdir_failed(fd, h) ==
    [w |-> fd.w, ret |-> fd.err, h |-> [h EXCEPT !.files = <<>>], out |-> NoEntry]

readdir_ro_opened(ro_dir, h, ctx) ==
    IF ro_dir.err < 0 THEN readdir_failed(ro_dir, h)
    ELSE readdir_serve(ro_dir.w,
                       [h EXCEPT !.files =
                            readdir_ro_all(ctx, h,
                                           Emitted(Entries(ro_dir.w.ro, Canon(h.ro_path.p))),
                                           ro_dir.w.ro, Canon(h.ro_path.p)).files])

readdir_ro(w, h, ctx) ==
    IF h.has_ro THEN readdir_ro_opened(dbg_open(w, h.ro_path, {}), h, ctx)
    ELSE readdir_serve(w, [h EXCEPT !.files = ctx.files])

readdir_rw_opened(rw_dir, h) ==
    IF rw_dir.err < 0 THEN readdir_failed(rw_dir, h)
    ELSE readdir_ro(rw_dir.w, h,
                    readdir_rw_all([files |-> <<>>, whiteouts |-> <<>>], h,
                                   Emitted(Entries(rw_dir.w.rw, Canon(h.rw_path.p))),
                                   rw_dir.w.rw, Canon(h.rw_path.p)))

(* hepunion_readdir building its list at every call *)
hepunion_readdir_rebuilds(w, h) ==
    IF h.has_rw THEN readdir_rw_opened(dbg_open(w, h.rw_path, {}), h)
    ELSE readdir_ro(w, h, [files |-> <<>>, whiteouts |-> <<>>])

(* hepunion_readdir: the list is built when it is empty, then served *)
hepunion_readdir(w, h) ==
    IF h.files # <<>> THEN readdir_serve(w, h)
    ELSE IF h.has_rw THEN readdir_rw_opened(dbg_open(w, h.rw_path, {}), h)
    ELSE readdir_ro(w, h, [files |-> <<>>, whiteouts |-> <<>>])

(* ---- mount: the two branches of the option string ----
   The option string is BRANCH[=TYPE]:BRANCH[=TYPE]; a type is two
   characters, taken here as one token.  A pointer is the set of the string
   it points to, NULL the empty set. *)
COLON == ":"
EQUALS == "="
TYPE_RW == "RW"
TYPE_RO == "RO"

NULL == {}

(* strchr(s + from - 1, c): position in s of the first c at or after from, 0
   when there is none *)
RECURSIVE strchr_c(_, _, _)
strchr_c(s, c, from) ==
    IF from > Len(s) THEN 0 ELSE IF s[from] = c THEN from ELSE strchr_c(s, c, from + 1)

(* the string a pointer into s at position from points to *)
Suffix(s, from) == SubSeq(s, from, Len(s))

(* make_path(s, n, &path): the n first tokens of s without a trailing
   separator; [err, path] with err the length *)
make_path_cut(s, n) == [err |-> n, path |-> {SubSeq(s, 1, n)}]

make_path(s, n) ==
    IF s = <<>> \/ s[1] # SLASH THEN [err |-> -EINVAL, path |-> NULL]
    ELSE make_path_cut(s, IF s[n] = SLASH THEN n - 1 ELSE n)

(* kzalloc: the super block info before get_branches *)
NoBranches ==
    [read_only_branch |-> NULL, ro_len |-> 0, read_write_branch |-> NULL, rw_len |-> 0]

(* the directories that exist where the mount is made *)
BranchDirs == {<<SLASH, "root">>, <<SLASH, "snapshot">>}

branch_open(path) == IF path \subseteq BranchDirs THEN 0 ELSE -ENOENT

(* both branches must be set and must open *)
get_branches_check(sb) ==
    IF sb.read_only_branch = NULL \/ sb.read_write_branch = NULL
    THEN [err |-> -EINVAL, sb |-> sb]
    ELSE IF branch_open(sb.read_only_branch) < 0
    THEN [err |-> branch_open(sb.read_only_branch), sb |-> sb]
    ELSE [err |-> branch_open(sb.read_write_branch), sb |-> sb]

(* the second branch carries a type *)
get_branches_second_typed(arg, type, sb, forced_ro, mp) ==
    IF mp.err < 0 THEN [err |-> mp.err, sb |-> sb]
    ELSE IF Suffix(arg, type + 1) # <<>> /\ arg[type + 1] = TYPE_RW
    THEN (IF sb.read_write_branch # NULL THEN [err |-> -EINVAL, sb |-> sb]
          ELSE get_branches_check([sb EXCEPT !.read_write_branch = mp.path,
                                             !.rw_len = mp.err]))
    ELSE IF Suffix(arg, type + 1) = <<>> \/ arg[type + 1] # TYPE_RO
    THEN [err |-> -EINVAL, sb |-> sb]
    ELSE IF forced_ro THEN [err |-> -EINVAL, sb |-> sb]
    ELSE get_branches_check([sb EXCEPT !.read_only_branch = mp.path, !.ro_len = mp.err])

(* the second branch carries no type: it takes the kind that is not set *)
get_branches_second_plain(sb, mp) ==
    IF sb.read_write_branch # NULL
    THEN (IF mp.err < 0 THEN [err |-> mp.err, sb |-> [sb EXCEPT !.read_only_branch = NULL]]
          ELSE get_branches_check([sb EXCEPT !.read_only_branch = mp.path,
                                             !.ro_len = mp.err]))
    ELSE IF sb.read_only_branch # NULL
    THEN (IF mp.err < 0 THEN [err |-> mp.err, sb |-> sb]
          ELSE get_branches_check([sb EXCEPT !.read_write_branch = mp.path,
                                             !.rw_len = mp.err]))
    ELSE get_branches_check(sb)

(* part2 is the position after the colon, type the position of the second
   branch's "=" or 0 *)
get_branches_second(arg, part2, type, sb, forced_ro) ==
    IF type # 0
    THEN get_branches_second_typed(arg, type, sb, forced_ro,
                                   make_path(Suffix(arg, part2), type - part2))
    ELSE get_branches_second_plain(sb, make_path(Suffix(arg, part2),
                                                 Len(Suffix(arg, part2))))

(* the first branch carries a type *)
get_branches_first_typed(arg, part2, type, mp) ==
    IF mp.err < 0 THEN [err |-> mp.err, sb |-> NoBranches]
    ELSE IF arg[type + 1] = TYPE_RW
    THEN get_branches_second(arg, part2 + 1, strchr_c(arg, EQUALS, part2),
                             [NoBranches EXCEPT !.read_write_branch = mp.path,
                                                !.rw_len = mp.err],
                             FALSE)
    ELSE IF arg[type + 1] # TYPE_RO THEN [err |-> -EINVAL, sb |-> NoBranches]
    ELSE get_branches_second(arg, part2 + 1, strchr_c(arg, EQUALS, part2),
                             [NoBranches EXCEPT !.read_only_branch = mp.path,
                                                !.ro_len = mp.err],
                             TRUE)

(* the first branch carries no type: it is the read-only branch *)
get_branches_first_plain(arg, part2, type, mp) ==
    IF mp.err < 0 THEN [err |-> mp.err, sb |-> NoBranches]
    ELSE get_branches_second(arg, part2 + 1, type,
                             [NoBranches EXCEPT !.read_only_branch = mp.path,
                                                !.ro_len = mp.err],
                             FALSE)

get_branches_found(arg, part2, type) ==
    IF part2 = 0 THEN [err |-> -EINVAL, sb |-> NoBranches]
    ELSE IF type # 0 /\ type < part2
    THEN get_branches_first_typed(arg, part2, type, make_path(arg, type - 1))
    ELSE get_branches_first_plain(arg, part2, type, make_path(arg, part2 - 1))

get_branches(arg) ==
    get_branches_found(arg, strchr_c(arg, COLON, 1), strchr_c(arg, EQUALS, 1))

(* the option string of the test script: snapshot/=RW:root/=RO *)
ScriptArg ==
    <<SLASH, "snapshot", SLASH, EQUALS, TYPE_RW, COLON, SLASH, "root", SLASH, EQUALS, TYPE_RO>>

(* ---- state ---- *)
VARIABLES
    ro,        \* the read-only branch
    rw,        \* the read-write branch
    cred,      \* fsuid / fsgid of every process
    ctx,       \* context->uid, context->gid
    id_lock,   \* context->id_lock
    halted,    \* "" for a live process, else how its thread stopped in the kernel
    ncalls,    \* the number of calls made so far
    dirfile,   \* the open directory: its private data and f_pos
    thr,       \* every thread's place in push_root / pop_root, taken step by step
    race,      \* every thread's place in an open that other opens interleave with
    nlink,     \* i_nlink of the union inode of every directory
    mnt,       \* the mount: its option string and what get_branches made of it
    lookups,   \* context->global1, context->read_inode_head and the lookups under way
    buffers_in_use  \* context->buffers_in_use

vars == <<ro, rw, cred, ctx, id_lock, halted, ncalls, dirfile, thr, race, nlink, mnt,
          lookups, buffers_in_use>>

MaxCalls == 2

Procs == {1, 2}

RootProc == 1
UserProc == 2

UserId == 100

File(ino, mode, uid, data) ==
    [type |-> "reg", mode |-> mode, uid |-> uid, gid |-> uid, atime |-> 1, mtime |-> 1,
     data |-> data, ino |-> ino, target |-> NoPath]

Dir(ino, mode, uid) ==
    [type |-> "dir", mode |-> mode, uid |-> uid, gid |-> uid, atime |-> 1, mtime |-> 1,
     data |-> <<>>, ino |-> ino, target |-> NoPath]

(* the branches at mount time: what the test script prepares *)
RO0(root_mode) ==
    (<<>> :> Dir(1, root_mode, 0)) @@ (<< <<"a">> >> :> File(2, \o644, 0, <<7>>))
    @@ (<< <<"d">> >> :> Dir(3, \o755, 0))
    @@ (<< <<"d">>, <<"x">> >> :> File(4, \o644, 0, <<8>>))

(* copied_up: the directory d was copied up during an earlier mount *)
RW0(root_mode, copied_up) ==
    (<<>> :> Dir(1, root_mode, 0)) @@ (<< <<"b">> >> :> File(2, \o644, UserId, <<9>>))
    @@ (IF copied_up THEN << <<"d">> >> :> Dir(3, \o755, 0) ELSE <<>>)

RootModes == {\o755, \o777}

(* the credentials the processes run with *)
Cred0 == (RootProc :> [uid |-> 0, gid |-> 0]) @@ (UserProc :> [uid |-> UserId, gid |-> UserId])

(* two processes of root *)
RootCred == [p \in Procs |-> [uid |-> 0, gid |-> 0]]

(* ---- the read_inode contexts of the mount ----
   HEAD is context->read_inode_head; the entry a lookup of thread p
   allocates is p.  INIT_LIST_HEAD leaves the head pointing at itself. *)
HEAD == 0

LIST_POISON == -1

Contexts == {HEAD} \cup Procs

NoContext == [next |-> LIST_POISON, prev |-> LIST_POISON, ino |-> name_to_ino(<<>>),
            name |-> <<>>, freed |-> TRUE]

INIT_LIST_HEAD == [e \in Contexts |-> IF e = HEAD THEN [NoContext EXCEPT !.next = HEAD,
                                                                     !.prev = HEAD,
                                                                     !.freed = FALSE]
                                     ELSE NoContext]

NoLookup == [pc |-> "idle", dir |-> <<>>, name |-> <<>>, first |-> HEAD, found |-> <<>>,
             read |-> FALSE, ret |-> 0]

NoLookups == [global1 |-> <<>>, list |-> INIT_LIST_HEAD, at |-> [p \in Procs |-> NoLookup]]

NoOpen == [pc |-> "idle", comps |-> <<>>, flags |-> {}, rw_err |-> 0, ret |-> 0]

(* the branches as the test script prepares them, for processes of the
   credentials cred0 *)
Prepared(cred0) ==
    /\ \E m \in RootModes, copied_up \in BOOLEAN : ro = RO0(m) /\ rw = RW0(m, copied_up)
    /\ cred = cred0
    /\ ctx = [uid |-> 0, gid |-> 0]
    /\ id_lock = [cnt |-> 0, owner |-> 0, spin |-> FALSE]
    /\ halted = [p \in Procs |-> ""]
    /\ ncalls = 0
    /\ dirfile = NoHandle
    /\ thr = [p \in Procs |-> [pc |-> "run", depth |-> 0, count |-> 0]]
    /\ race = [p \in Procs |-> NoOpen]
    /\ nlink = [d \in {<<>>, << <<"d">> >>} |-> 2]
    /\ lookups = NoLookups
    /\ buffers_in_use = 0

(* an option string and its mount *)
Mount(arg, r) == [arg |-> arg, done |-> TRUE, err |-> r.err, sb |-> r.sb]

Mounted(cred0) == Prepared(cred0) /\ mnt = Mount(ScriptArg, get_branches(ScriptArg))

Init == Mounted(Cred0)

World(p) ==
    [ro |-> ro, rw |-> rw, uid |-> cred[p].uid, gid |-> cred[p].gid,
     suid |-> ctx.uid, sgid |-> ctx.gid, cur |-> p,
     cnt |-> id_lock.cnt, owner |-> id_lock.owner, spin |-> id_lock.spin, halt |-> "",
     nlink |-> nlink, buf |-> buffers_in_use, fault |-> "none"]

(* the state a call leaves behind *)
ReturnedAt(p, r, n) ==
    /\ ncalls' = n
    /\ ro' = r.w.ro
    /\ rw' = r.w.rw
    /\ cred' = [cred EXCEPT ![p] = [uid |-> r.w.uid, gid |-> r.w.gid]]
    /\ ctx' = [uid |-> r.w.suid, gid |-> r.w.sgid]
    /\ id_lock' = [cnt |-> r.w.cnt, owner |-> r.w.owner, spin |-> r.w.spin]
    /\ halted' = [halted EXCEPT ![p] = r.w.halt]
    /\ nlink' = r.w.nlink
    /\ buffers_in_use' = r.w.buf
    /\ UNCHANGED <<thr, mnt>>

Returned(p, r) == ReturnedAt(p, r, ncalls + 1) /\ UNCHANGED <<race, lookups>>

Commit(p, r) == Returned(p, r) /\ UNCHANGED dirfile

(* a call on the open directory leaves the handle as well; a thread that
   stopped in the call left the handle as it was *)
CommitDir(p, r) ==
    Returned(p, r) /\ dirfile' = IF Running(r.w) THEN r.h ELSE dirfile

Live(p) == halted[p] = ""

(* a live process may make a call while the budget of calls lasts *)
Ready(p) == ncalls < MaxCalls /\ Live(p)

(* the dentries the VFS walks to: a name resolves when hepunion_lookup finds
   it, and what it finds decides the kind of inode.  The VFS calls create and
   mknod on a negative dentry, unlink on a positive non-directory, rmdir on a
   positive directory. *)
Dirs == {<<>>, << <<"d">> >>}
Names == {<<"a">>, <<"b">>, <<"d">>, <<"x">>}

RECURSIVE Positive(_, _)
Positive(w, comps) ==
    IF comps = <<>> THEN TRUE
    ELSE /\ Positive(w, ParentKey(comps))
         /\ find_file(w, get_relative_path_for_file(ParentKey(comps), comps[Len(comps)]), 0).err >= 0

(* the node hepunion_lookup resolved the dentry to *)
Resolved_at(w, f) == Node(Branch(w, f.real_path), f.real_path.p)

Resolved(w, comps) ==
    IF comps = <<>> THEN Node(w.rw, <<SLASH>>)
    ELSE Resolved_at(w, find_file(w, get_relative_path_for_file(ParentKey(comps),
                                                                comps[Len(comps)]), 0))

IsDirDentry(w, comps) == Positive(w, comps) /\ Resolved(w, comps).type = "dir"

IsFileDentry(w, comps) == comps # <<>> /\ Positive(w, comps) /\ Resolved(w, comps).type # "dir"

Dentries == {Append(d, n) : d \in Dirs, n \in Names} \cup Dirs

OpenFlags == {{}, {O_TRUNC}, {O_WRONLY}, {O_RDWR}, {O_WRONLY, O_TRUNC}}

(* the attribute changes a caller asks for *)
Deltas ==
    {[valid |-> {"mode"}, attr |-> [NoStat EXCEPT !.mode = \o600]],
     [valid |-> {"uid"}, attr |-> [NoStat EXCEPT !.uid = UserId]],
     [valid |-> {"atime"}, attr |-> [NoStat EXCEPT !.atime = 2]],
     [valid |-> {"uid", "gid", "atime", "mtime"},
      attr |-> [NoStat EXCEPT !.uid = UserId, !.gid = UserId, !.atime = 2, !.mtime = 2]]}

GarbageStats == {NoStat, [NoStat EXCEPT !.mode = \o777, !.uid = UserId]}

Oracles ==
    {u \in [uaf : {"intact", "garbage"}, stack : {"alive", "oops"}, has_me : BOOLEAN,
            kst : GarbageStats] : u.has_me \/ u.kst = NoStat}

(* the calls that read no freed stack object and no unwritten variable *)
UafOracles == {u \in Oracles : u.stack = "alive" /\ ~u.has_me /\ u.kst = NoStat}

(* the calls that only read has_me and kstbuf unwritten *)
MeOracles == {u \in Oracles : u.stack = "alive" /\ u.uaf = "intact"}

(* mkdir reads a freed string and a string taken for a structure *)
MkdirOracles == [uaf : {"intact", "garbage"}, cast : {"oops", "fail", "stray"}]

(* the permission operation: the VFS runs it before it calls a handler, on
   the directory with MAY_WRITE | MAY_EXEC before create, mknod, unlink and
   rmdir, on the directory with MAY_EXEC before a lookup and on the way to an
   inode, on the inode with the access mode of the flags before open *)
hepunion_permission_found(f, path, mask) ==
    IF f.err < 0 THEN Ret(f.w, f.err)
    ELSE Ret(f.w, can_access(f.w, path, f.real_path, mask))

hepunion_permission(w, comps, mask) ==
    hepunion_permission_found(find_file(will_use_buffers(w), get_relative_path(comps), 0),
                              get_relative_path(comps), mask)

(* the handler is entered when the permission operation granted, and a
   thread that stopped inside the permission operation stays stopped *)
Granted(v) == v.ret = 0 \/ ~Running(v.w)

Asked(p, comps, mask) == hepunion_permission(World(p), comps, mask)

(* the walk to an inode searches its parent directory *)
Walked(p, comps) ==
    IF comps = <<>> THEN [w |-> World(p), ret |-> 0] ELSE Asked(p, ParentKey(comps), MAY_EXEC)

(* notify_change lets the owner and root change an inode, and only root
   give it away *)
OwnerOrRoot(w, n, d) ==
    w.uid = 0 \/ (n.uid = w.uid /\ ("uid" \in d.valid => d.attr.uid = n.uid))

Lookup ==
    \E p \in Procs, d \in Dirs :
        /\ Ready(p) /\ IsDirDentry(World(p), d)
        /\ Granted(Asked(p, d, MAY_EXEC))
        /\ \E n \in Names : Commit(p, hepunion_lookup(Asked(p, d, MAY_EXEC).w, d, n))

Getattr ==
    \E p \in Procs, c \in Dentries :
        /\ Ready(p) /\ Positive(World(p), c)
        /\ Granted(Walked(p, c))
        /\ Commit(p, hepunion_getattr(Walked(p, c).w, c))

(* what the kernel may refuse a call *)
Faults == {"none", "io", "attr", "inode"}

Open ==
    \E p \in Procs, c \in Dentries, fl \in OpenFlags, ft \in Faults :
        /\ Ready(p) /\ IsFileDentry(World(p), c)
        /\ Granted(Asked(p, c, open_acc(fl)))
        /\ Commit(p, hepunion_open(Faulty(Asked(p, c, open_acc(fl)).w, ft), c, fl))

Setattr ==
    \E p \in Procs, c \in Dentries, d \in Deltas :
        /\ Ready(p) /\ Positive(World(p), c)
        /\ Granted(Walked(p, c))
        /\ OwnerOrRoot(World(p), Resolved(World(p), c), d)
        /\ Commit(p, hepunion_setattr(Walked(p, c).w, c, d.valid, d.attr))

Create ==
    \E p \in Procs, d \in Dirs :
        /\ Ready(p) /\ IsDirDentry(World(p), d)
        /\ Granted(Asked(p, d, MAY_WRITE + MAY_EXEC))
        /\ \E n \in Names :
               /\ ~Positive(World(p), Append(d, n))
               /\ \E u \in UafOracles, ft \in Faults :
                      Commit(p, hepunion_create(Faulty(Asked(p, d, MAY_WRITE + MAY_EXEC).w,
                                                       ft),
                                                d, n, \o644, u))

Link ==
    \E p \in Procs, c \in Dentries, d \in Dirs :
        /\ Ready(p) /\ IsFileDentry(World(p), c) /\ IsDirDentry(World(p), d)
        /\ Granted(Asked(p, d, MAY_WRITE + MAY_EXEC))
        /\ \E n \in Names :
               /\ ~Positive(World(p), Append(d, n))
               /\ \E u \in UafOracles :
                      Commit(p, hepunion_link(Asked(p, d, MAY_WRITE + MAY_EXEC).w,
                                             c, d, n, u))

(* what a caller asks a symbolic link to hold *)
SymNames == {make_ro_path(get_relative_path(<< <<"a">> >>))}

Symlink ==
    \E p \in Procs, d \in Dirs :
        /\ Ready(p) /\ IsDirDentry(World(p), d)
        /\ Granted(Asked(p, d, MAY_WRITE + MAY_EXEC))
        /\ \E n \in Names :
               /\ ~Positive(World(p), Append(d, n))
               /\ \E u \in UafOracles, symname \in SymNames :
                      Commit(p, hepunion_symlink(Asked(p, d, MAY_WRITE + MAY_EXEC).w,
                                                  d, n, symname, u))

Mknod ==
    \E p \in Procs, d \in Dirs :
        /\ Ready(p) /\ IsDirDentry(World(p), d)
        /\ Granted(Asked(p, d, MAY_WRITE + MAY_EXEC))
        /\ \E n \in Names :
               /\ ~Positive(World(p), Append(d, n))
               /\ \E u \in UafOracles :
                      Commit(p, hepunion_mknod(Asked(p, d, MAY_WRITE + MAY_EXEC).w,
                                               d, n, "fifo", \o644, u))

Unlink ==
    \E p \in Procs, d \in Dirs :
        /\ Ready(p) /\ IsDirDentry(World(p), d)
        /\ Granted(Asked(p, d, MAY_WRITE + MAY_EXEC))
        /\ \E n \in Names :
               /\ IsFileDentry(World(p), Append(d, n))
               /\ \E u \in MeOracles, ft \in Faults :
                      Commit(p, hepunion_unlink(Faulty(Asked(p, d, MAY_WRITE + MAY_EXEC).w,
                                                       ft),
                                                d, n, u))

Rmdir ==
    \E p \in Procs, d \in Dirs :
        /\ Ready(p) /\ IsDirDentry(World(p), d)
        /\ Granted(Asked(p, d, MAY_WRITE + MAY_EXEC))
        /\ \E n \in Names :
               /\ IsDirDentry(World(p), Append(d, n))
               /\ \E u \in Oracles, ft \in Faults :
                      Commit(p, hepunion_rmdir(Faulty(Asked(p, d, MAY_WRITE + MAY_EXEC).w,
                                                      ft),
                                               d, n, u))

Mkdir ==
    \E p \in Procs, d \in Dirs :
        /\ Ready(p) /\ IsDirDentry(World(p), d)
        /\ Granted(Asked(p, d, MAY_WRITE + MAY_EXEC))
        /\ \E n \in Names :
               /\ ~Positive(World(p), Append(d, n))
               /\ \E u \in MkdirOracles, ft \in Faults :
                      Commit(p, hepunion_mkdir(Faulty(Asked(p, d, MAY_WRITE + MAY_EXEC).w,
                                                      ft),
                                               d, n, \o755, u))

(* open(2) of a directory asks for read access; one directory is open at
   a time *)
Opendir ==
    \E p \in Procs, d \in Dirs :
        /\ Ready(p) /\ ~dirfile.open /\ IsDirDentry(World(p), d)
        /\ Granted(Asked(p, d, MAY_READ))
        /\ hepunion_opendir(Asked(p, d, MAY_READ).w, d).ret = 0
        /\ CommitDir(p, hepunion_opendir(Asked(p, d, MAY_READ).w, d))

Readdir ==
    \E p \in Procs :
        /\ Ready(p) /\ dirfile.open
        /\ CommitDir(p, hepunion_readdir(World(p), dirfile))

Closedir ==
    \E p \in Procs :
        /\ Ready(p) /\ dirfile.open
        /\ CommitDir(p, hepunion_closedir(World(p)))

Next ==
    \/ Lookup \/ Getattr \/ Open \/ Setattr \/ Create \/ Mknod \/ Unlink \/ Rmdir
    \/ Mkdir \/ Link \/ Symlink \/ Opendir \/ Readdir \/ Closedir

Spec == Init /\ [][Next]_vars

(* ---- one directory handle and the directory changing under it ---- *)
(* The calls on the handle are not counted; the changes to the directories
   are root's, and at most MaxDirCalls of them are made. *)
MaxDirCalls == 1

Served(p, r) ==
    ReturnedAt(p, r, ncalls) /\ UNCHANGED <<race, lookups>> /\ dirfile' = IF Running(r.w) THEN r.h ELSE dirfile

Changing == ncalls < MaxDirCalls /\ Live(RootProc)

DirOpendir ==
    \E p \in Procs, d \in Dirs :
        /\ Live(p) /\ ~dirfile.open /\ IsDirDentry(World(p), d)
        /\ Granted(Asked(p, d, MAY_READ))
        /\ hepunion_opendir(Asked(p, d, MAY_READ).w, d).ret = 0
        /\ Served(p, hepunion_opendir(Asked(p, d, MAY_READ).w, d))

DirReaddir ==
    \E p \in Procs : Live(p) /\ dirfile.open /\ Served(p, hepunion_readdir(World(p), dirfile))

DirClosedir ==
    \E p \in Procs : Live(p) /\ dirfile.open /\ Served(p, hepunion_closedir(World(p)))

DirCreate ==
    \E d \in Dirs, n \in Names, u \in UafOracles :
        /\ Changing /\ IsDirDentry(World(RootProc), d)
        /\ ~Positive(World(RootProc), Append(d, n))
        /\ Commit(RootProc, hepunion_create(Asked(RootProc, d, MAY_WRITE + MAY_EXEC).w,
                                            d, n, \o644, u))

DirUnlink ==
    \E d \in Dirs, n \in Names, u \in MeOracles :
        /\ Changing /\ IsDirDentry(World(RootProc), d)
        /\ IsFileDentry(World(RootProc), Append(d, n))
        /\ Commit(RootProc, hepunion_unlink(Asked(RootProc, d, MAY_WRITE + MAY_EXEC).w,
                                            d, n, u))

DirNext == DirOpendir \/ DirReaddir \/ DirClosedir \/ DirCreate \/ DirUnlink

DirSpec == Init /\ [][DirNext]_vars

(* ---- push_root / pop_root, one memory access at a time ----
   thr[t].pc    : "run" outside recursive_mutex_lock/unlock and the macros,
                  else the statement the thread is about to execute
   thr[t].depth : the push_root sections the thread is inside
   thr[t].count : the local variable count *)
MaxDepth == 2

spin_can_lock_always(l) == TRUE

(* spin_lock returns once the lock is not held *)
spin_can_lock(l) == ~l.spin

Entered(th) == [th EXCEPT !.pc = "save", !.depth = @ + 1]

(* int count = atomic_add_return(1, &mutex->count); *)
LockAdd(t) ==
    /\ thr[t].pc = "run" /\ thr[t].depth < MaxDepth
    /\ id_lock' = [id_lock EXCEPT !.cnt = @ + 1]
    /\ thr' = [thr EXCEPT ![t].pc = "test", ![t].count = id_lock.cnt + 1]
    /\ UNCHANGED <<ro, rw, cred, ctx, halted, ncalls, dirfile, race, nlink,
                 mnt, lookups, buffers_in_use>>

(* if (count == 1) ... else if (mutex->owner != task->thread_info) ... *)
LockTest(t) ==
    /\ thr[t].pc = "test"
    /\ thr' = [thr EXCEPT ![t] = IF thr[t].count = 1 THEN [@ EXCEPT !.pc = "lock_first"]
                                 ELSE IF id_lock.owner # t THEN [@ EXCEPT !.pc = "lock_wait"]
                                 ELSE Entered(@)]
    /\ UNCHANGED <<ro, rw, cred, ctx, id_lock, halted, ncalls, dirfile, race, nlink,
                 mnt, lookups, buffers_in_use>>

(* count == 1: spin_lock(&mutex->lock); *)
LockFirst(t) ==
    /\ thr[t].pc = "lock_first" /\ spin_can_lock(id_lock)
    /\ id_lock' = [id_lock EXCEPT !.spin = TRUE]
    /\ thr' = [thr EXCEPT ![t].pc = "own"]
    /\ UNCHANGED <<ro, rw, cred, ctx, halted, ncalls, dirfile, race, nlink,
                 mnt, lookups, buffers_in_use>>

(* mutex->owner = task->thread_info; *)
LockOwn(t) ==
    /\ thr[t].pc = "own"
    /\ id_lock' = [id_lock EXCEPT !.owner = t]
    /\ thr' = [thr EXCEPT ![t] = Entered(@)]
    /\ UNCHANGED <<ro, rw, cred, ctx, halted, ncalls, dirfile, race, nlink,
                 mnt, lookups, buffers_in_use>>

(* count != 1 and another owner: spin_lock(&mutex->lock); *)
LockWait(t) ==
    /\ thr[t].pc = "lock_wait" /\ spin_can_lock(id_lock)
    /\ id_lock' = [id_lock EXCEPT !.spin = TRUE]
    /\ thr' = [thr EXCEPT ![t] = Entered(@)]
    /\ UNCHANGED <<ro, rw, cred, ctx, halted, ncalls, dirfile, race, nlink,
                 mnt, lookups, buffers_in_use>>

(* push_root after the lock: context->uid = current_fsuid(); ... fsuid = 0 *)
PushRoot(t) ==
    /\ thr[t].pc = "save"
    /\ ctx' = cred[t]
    /\ cred' = [cred EXCEPT ![t] = [uid |-> 0, gid |-> 0]]
    /\ thr' = [thr EXCEPT ![t].pc = "run"]
    /\ UNCHANGED <<ro, rw, id_lock, halted, ncalls, dirfile, race, nlink,
                 mnt, lookups, buffers_in_use>>

(* pop_root before the unlock: new->fsuid = context->uid; ... *)
PopRoot(t) ==
    /\ thr[t].pc = "run" /\ thr[t].depth > 0
    /\ cred' = [cred EXCEPT ![t] = ctx]
    /\ thr' = [thr EXCEPT ![t].pc = "sub"]
    /\ UNCHANGED <<ro, rw, ctx, id_lock, halted, ncalls, dirfile, race, nlink,
                 mnt, lookups, buffers_in_use>>

(* int count = atomic_sub_return(1, &mutex->count); if (count == 0) ... *)
UnlockSub(t) ==
    /\ thr[t].pc = "sub"
    /\ id_lock' = [id_lock EXCEPT !.cnt = @ - 1]
    /\ thr' = [thr EXCEPT ![t].pc = IF id_lock.cnt - 1 = 0 THEN "disown" ELSE "run",
                          ![t].count = id_lock.cnt - 1,
                          ![t].depth = @ - 1]
    /\ UNCHANGED <<ro, rw, cred, ctx, halted, ncalls, dirfile, race, nlink,
                 mnt, lookups, buffers_in_use>>

(* mutex->owner = 0; *)
UnlockDisown(t) ==
    /\ thr[t].pc = "disown"
    /\ id_lock' = [id_lock EXCEPT !.owner = 0]
    /\ thr' = [thr EXCEPT ![t].pc = "release"]
    /\ UNCHANGED <<ro, rw, cred, ctx, halted, ncalls, dirfile, race, nlink,
                 mnt, lookups, buffers_in_use>>

(* spin_unlock(&mutex->lock); *)
UnlockRelease(t) ==
    /\ thr[t].pc = "release"
    /\ id_lock' = [id_lock EXCEPT !.spin = FALSE]
    /\ thr' = [thr EXCEPT ![t].pc = "run"]
    /\ UNCHANGED <<ro, rw, cred, ctx, halted, ncalls, dirfile, race, nlink,
                 mnt, lookups, buffers_in_use>>

(* every step of a thread but the decision to call push_root *)
Proceed(t) ==
    \/ LockTest(t) \/ LockFirst(t) \/ LockOwn(t) \/ LockWait(t) \/ PushRoot(t)
    \/ PopRoot(t) \/ UnlockSub(t) \/ UnlockDisown(t) \/ UnlockRelease(t)

LockNext ==
    \E t \in Procs :
        \/ LockAdd(t) \/ LockTest(t) \/ LockFirst(t) \/ LockOwn(t) \/ LockWait(t)
        \/ PushRoot(t) \/ PopRoot(t) \/ UnlockSub(t) \/ UnlockDisown(t)
        \/ UnlockRelease(t)

(* a thread that can take a step takes it; a thread inside a section leaves
   it; no thread has to call push_root *)
LockSpec == Init /\ [][LockNext]_vars /\ \A t \in Procs : WF_vars(Proceed(t))

(* ---- two opens at once ----
   Each of two root processes opens one file once.  hepunion_open is taken
   in two steps: find_file's check of the read-write branch, then the rest
   of the call. *)
(* buffers_in_use is read and written with no lock held: a thread that
   enters while another is inside a call reads the flag before or after the
   other's store *)
FlagSeen == {0, buffers_in_use}

RaceWorld(p, seen) == [World(p) EXCEPT !.buf = seen]

RaceAsked(p, c, fl, seen) == hepunion_permission(RaceWorld(p, seen), c, open_acc(fl))

RaceResolve ==
    \E p \in Procs, c \in Dentries, fl \in OpenFlags, seen \in FlagSeen :
        /\ Live(p) /\ race[p].pc = "idle" /\ IsFileDentry(World(p), c)
        /\ Granted(RaceAsked(p, c, fl, seen))
        /\ ReturnedAt(p, [w |-> as_root(will_use_buffers(RaceAsked(p, c, fl, seen).w))], ncalls)
        /\ race' = [race EXCEPT ![p] =
                        [pc |-> "resolved", comps |-> c, flags |-> fl,
                         rw_err |-> check_exist(World(p),
                                                make_rw_path(get_relative_path(c))),
                         ret |-> 0]]
        /\ UNCHANGED <<dirfile, lookups>>

RaceOpen ==
    \E p \in Procs :
        /\ Live(p) /\ race[p].pc = "resolved"
        /\ ReturnedAt(p, hepunion_open_resumed(World(p), race[p].comps, race[p].flags,
                                               race[p].rw_err),
                      ncalls + 1)
        /\ race' = [race EXCEPT ![p].pc = "done",
                                ![p].ret = hepunion_open_resumed(World(p), race[p].comps,
                                                                 race[p].flags,
                                                                 race[p].rw_err).ret]
        /\ UNCHANGED <<dirfile, lookups>>

RaceNext == RaceResolve \/ RaceOpen

RaceSpec == Mounted(RootCred) /\ [][RaceNext]_vars

(* ---- copy-up called on any entry ----
   create_copyup is handed directories by copy_child only; here the resolver
   is asked for the copy-up of any entry of the union, directories included,
   between the calls that create entries. *)
Copyup ==
    \E p \in Procs, c \in Dentries \ {<<>>}, ft \in Faults :
        /\ Ready(p) /\ Positive(World(p), c)
        /\ Commit(p, find_file(Faulty(World(p), ft), get_relative_path(c), CREATE_COPYUP))

CopyNext == Open \/ Create \/ Mkdir \/ Copyup

CopySpec == Init /\ [][CopyNext]_vars

(* ---- mounting ----
   An option string is put together from two directories, each with or
   without a trailing separator and a type, and handed to get_branches. *)
MountNames == {<<SLASH, "root">>, <<SLASH, "root", SLASH>>, <<SLASH, "snapshot">>,
               <<SLASH, "snapshot", SLASH>>, <<"root">>}

NoType == ""

MountTypes == {NoType, TYPE_RW, TYPE_RO, "XX"}

Typed(name, type) == IF type = NoType THEN name ELSE name \o <<EQUALS, type>>

MountArg(a, ta, b, tb) == Typed(a, ta) \o <<COLON>> \o Typed(b, tb)

MountArgs == {MountArg(a, ta, b, tb) : a \in MountNames, b \in MountNames,
                                       ta \in MountTypes, tb \in MountTypes}

MountInit ==
    /\ Prepared(Cred0)
    /\ \E arg \in MountArgs :
           mnt = [arg |-> arg, done |-> FALSE, err |-> 0, sb |-> NoBranches]

DoMount ==
    /\ ~mnt.done
    /\ mnt' = Mount(mnt.arg, get_branches(mnt.arg))
    /\ UNCHANGED <<ro, rw, cred, ctx, id_lock, halted, ncalls, dirfile, thr, race, nlink,
                   lookups, buffers_in_use>>

MountNext == DoMount

MountSpec == MountInit /\ [][MountNext]_vars

(* ---- the properties ---- *)
(* the union path of the entry n of the directory d, and its reserved files *)
UnionPath(d, n) == get_relative_path(Append(d, n))

WhPath(d, n) == path_to_special(UnionPath(d, n), WH)

MePath(c) == path_to_special(get_relative_path(c), ME)

(* can_access(parent(P), mask) for the calling identity, on the directory as
   the branch br holds it *)
GrantsIn(w, d, br, mask) ==
    can_access(w, get_relative_path(d), [br |-> br, p |-> get_relative_path(d)], mask) = 0

HeldBy(w, d) == {br \in {"ro", "rw"} : d \in DOMAIN Branch(w, [br |-> br, p |-> <<>>])}

(* the caller may write and search the parent directory, whichever branch's
   copy of it is asked *)
ParentGrants(w, d) ==
    /\ HeldBy(w, d) # {}
    /\ \A br \in HeldBy(w, d) :
           GrantsIn(w, d, br, MAY_WRITE) /\ GrantsIn(w, d, br, MAY_WRITE + MAY_EXEC)

(* the caller may not write the parent directory, whichever branch's copy
   of it is asked *)
ParentDenies(w, d) ==
    HeldBy(w, d) # {} /\ \A br \in HeldBy(w, d) : ~GrantsIn(w, d, br, MAY_WRITE)

(* C1: no sequence of operations issued through the union changes anything
   under the read-only branch: in every reachable state every file and
   directory of the RO branch has the type, content, size, mode and owner it
   had at mount. *)
C1_RoBranchUnchanged == \E m \in RootModes : ro = RO0(m)

(* C2: in every reachable state and for every path P, if the whiteout for P
   exists on the RW branch then lookup(P) returns ENOENT. *)
C2_WhiteoutHidesPath ==
    \A p \in Procs, d \in Dirs, n \in Names :
        LET w == World(p)
            r == hepunion_lookup(w, d, n)
        IN (/\ Live(p)
            /\ IsDirDentry(w, d)
            /\ check_exist(w, WhPath(d, n)) = 0
            /\ Running(r.w))
           => r.ret = -ENOENT

(* C3: when an operation returns, the calling thread's uid and gid are the
   ones it entered with; no operation of the union changes a credential, so
   every thread that has returned holds the credentials it started with. *)
C3_CredentialsRestored == \A p \in Procs : Live(p) => cred[p] = Cred0[p]

(* C4: a mutating operation (create, mknod, unlink, rmdir) issued by a caller
   whom can_access(parent(P), W) denies fails with EACCES and changes neither
   branch.  Creation is of an absent name, unlink of a present non-directory,
   rmdir of a present directory. *)
C4_DeniedMutationFails ==
    \A p \in Procs, d \in Dirs, n \in Names, u \in UafOracles :
        LET w == World(p)
            there == Positive(w, Append(d, n))
            isdir == IsDirDentry(w, Append(d, n))
            rs == (IF there THEN {} ELSE {hepunion_create(w, d, n, \o644, u),
                                          hepunion_mknod(w, d, n, "fifo", \o644, u)})
                  \cup (IF there /\ ~isdir THEN {hepunion_unlink(w, d, n, u)} ELSE {})
                  \cup (IF isdir THEN {hepunion_rmdir(w, d, n, u)} ELSE {})
        IN (Live(p) /\ IsDirDentry(w, d) /\ ParentDenies(w, d))
           => \A r \in rs : Running(r.w) => r.ret = -EACCES /\ r.w.ro = ro /\ r.w.rw = rw

(* C5: unlink(P) of a regular file held only by the RO branch, by a caller
   allowed to write the parent, succeeds and leaves on RW the whiteout for P
   as a regular file with mode 0400, uid 0, gid 0; lookup(P) then returns
   ENOENT. *)
C5_UnlinkRoFileLeavesWhiteout ==
    \A p \in Procs, d \in Dirs, n \in Names, u \in MeOracles :
        LET w == World(p)
            k == Append(d, n)
            r == hepunion_unlink(w, d, n, u)
        IN (/\ Live(p)
            /\ IsDirDentry(w, d)
            /\ ParentGrants(w, d)
            /\ k \in DOMAIN ro /\ ro[k].type = "reg"
            /\ k \notin DOMAIN rw
            /\ check_exist(w, WhPath(d, n)) < 0
            /\ Running(r.w))
           => /\ r.ret = 0
              /\ check_exist(r.w, WhPath(d, n)) = 0
              /\ Node(r.w.rw, WhPath(d, n).p).type = "reg"
              /\ Node(r.w.rw, WhPath(d, n).p).mode = S_IRUSR
              /\ Node(r.w.rw, WhPath(d, n).p).uid = 0
              /\ Node(r.w.rw, WhPath(d, n).p).gid = 0
              /\ hepunion_lookup(r.w, d, n).ret = -ENOENT

(* C6: when unlink(P) succeeds on a P the RW branch holds, the RW entry is
   gone, the whiteout for P exists afterwards if and only if the RO branch
   also holds P, and lookup(P) returns ENOENT. *)
C6_UnlinkRwFile ==
    \A p \in Procs, d \in Dirs, n \in Names, u \in MeOracles :
        LET w == World(p)
            k == Append(d, n)
            r == hepunion_unlink(w, d, n, u)
        IN (/\ Live(p)
            /\ IsDirDentry(w, d)
            /\ k \in DOMAIN rw /\ rw[k].type # "dir"
            /\ Running(r.w)
            /\ r.ret = 0)
           => /\ k \notin DOMAIN r.w.rw
              /\ (check_exist(r.w, WhPath(d, n)) = 0) <=> (k \in DOMAIN ro)
              /\ hepunion_lookup(r.w, d, n).ret = -ENOENT

(* C7: a setattr(P, delta) that succeeds on a P the resolver finds on the RO
   branch, with no sidecar yet, creates the sidecar for P on RW carrying the
   delta's fields and the RO entry's values for the other fields; it creates
   no RW copy of P and leaves the RO branch unchanged. *)
C7_SetattrRoMakesSidecar ==
    \A p \in Procs, c \in Dentries, dl \in Deltas :
        LET w == World(p)
            r == hepunion_setattr(w, c, dl.valid, dl.attr)
        IN (/\ Live(p)
            /\ c # <<>> /\ Positive(w, c)
            /\ c \in DOMAIN ro /\ c \notin DOMAIN rw
            /\ find_file(w, get_relative_path(c), 0).err = READ_ONLY
            /\ check_exist(w, MePath(c)) < 0
            /\ Running(r.w)
            /\ r.ret = 0)
           => /\ check_exist(r.w, MePath(c)) = 0
              /\ \A f \in MeAttrs :
                     Node(r.w.rw, MePath(c).p)[f] =
                         IF f \in dl.valid THEN dl.attr[f] ELSE ro[c][f]
              /\ c \notin DOMAIN r.w.rw
              /\ r.w.ro = ro

(* C8: whenever a sidecar for P exists and P resolves to RO, getattr(P)
   returns the sidecar's permission bits, uid, gid, atime and mtime, and the
   RO file's type and size. *)
C8_GetattrReadsSidecar ==
    \A p \in Procs, c \in Dentries :
        LET w == World(p)
            g == hepunion_getattr(w, c)
        IN (/\ Live(p)
            /\ c # <<>> /\ Positive(w, c)
            /\ c \in DOMAIN ro
            /\ find_file(w, get_relative_path(c), 0).err = READ_ONLY
            /\ check_exist(w, MePath(c)) = 0
            /\ Running(g.w))
           => /\ g.ret = 0
              /\ \A f \in MeAttrs : g.st[f] = Node(w.rw, MePath(c).p)[f]
              /\ g.st.type = ro[c].type
              /\ g.st.size = Len(ro[c].data)

(* C9: after opening for writing a P found on the RO branch succeeds, the RW
   branch holds P with the RO entry's content, no sidecar for P exists,
   getattr(P) returns what it returned before the call, and the attributes a
   sidecar set before the call are the attributes of the RW file. *)
C9_CopyupKeepsAttributes ==
    \A p \in Procs, c \in Dentries, fl \in {{O_WRONLY}, {O_RDWR}} :
        LET w == World(p)
            r == hepunion_open(w, c, fl)
        IN (/\ Live(p)
            /\ IsFileDentry(w, c)
            /\ c \in DOMAIN ro /\ c \notin DOMAIN rw
            /\ find_file(w, get_relative_path(c), 0).err = READ_ONLY
            /\ Running(r.w)
            /\ r.ret = 0)
           => /\ c \in DOMAIN r.w.rw
              /\ r.w.rw[c].data = ro[c].data
              /\ check_exist(r.w, MePath(c)) < 0
              /\ hepunion_getattr(r.w, c).st = hepunion_getattr(w, c).st
              /\ check_exist(w, MePath(c)) = 0
                 => \A f \in MeAttrs : r.w.rw[c][f] = Node(w.rw, MePath(c).p)[f]

(* the directory c is not empty in the union view: an entry of the RO
   directory has no whiteout on RW, or the RW directory holds an entry that
   is no whiteout *)
NonEmptyUnion(w, c) ==
    \/ /\ c \in DOMAIN w.ro
       /\ \E e \in Entries(w.ro, c) :
              ~is_special(e) /\ check_exist(w, path_to_special(get_relative_path(Append(c, e)), WH)) < 0
    \/ /\ c \in DOMAIN w.rw
       /\ \E e \in Entries(w.rw, c) : ~is_special(e) /\ ~is_whiteout(e)

(* C10: rmdir(P), by a caller allowed to write the parent, of a directory
   that is not empty in the union view fails with ENOTEMPTY and changes
   neither branch: nothing is removed and no whiteout is created. *)
C10_RmdirNonEmptyFails ==
    \A p \in Procs, d \in Dirs, n \in Names, u \in Oracles :
        LET w == World(p)
            r == hepunion_rmdir(w, d, n, u)
        IN (/\ Live(p)
            /\ IsDirDentry(w, d)
            /\ IsDirDentry(w, Append(d, n))
            /\ ParentGrants(w, d)
            /\ NonEmptyUnion(w, Append(d, n))
            /\ Running(r.w))
           => r.ret = -ENOTEMPTY /\ r.w.ro = ro /\ r.w.rw = rw

(* C11: whenever rmdir(P) returns success, P is absent from the union
   afterwards: the RW branch holds no directory at P, the whiteout for P
   exists if the RO branch holds P, and lookup(P) returns ENOENT. *)
C11_RmdirRemoves ==
    \A p \in Procs, d \in Dirs, n \in Names, u \in Oracles :
        LET w == World(p)
            k == Append(d, n)
            r == hepunion_rmdir(w, d, n, u)
        IN (/\ Live(p)
            /\ IsDirDentry(w, d)
            /\ IsDirDentry(w, k)
            /\ Running(r.w)
            /\ r.ret = 0)
           => /\ k \notin DOMAIN r.w.rw
              /\ k \in DOMAIN ro => check_exist(r.w, WhPath(d, n)) = 0
              /\ hepunion_lookup(r.w, d, n).ret = -ENOENT

(* the names readdir serves for the directory c, "." and ".." left out: the
   list a handle holds once opendir and the first readdir returned *)
Opened(w, c) == hepunion_opendir(w, c)

FirstRead(w, c) == hepunion_readdir(Opened(w, c).w, Opened(w, c).h)

Visible(w, c) == {n \in Listed(FirstRead(w, c).h.files) : ~is_special(n)}

(* C12: starting from an RO directory that contains an entry: after rmdir
   of the directory followed by mkdir of the same path, both successful, the
   RW branch holds the directory, the whiteout of the directory does not
   exist, and readdir lists no child of it. *)
C12_MkdirAfterRmdirIsEmpty ==
    \A p \in Procs, d \in Dirs, n \in Names, u1 \in Oracles, u2 \in MkdirOracles :
        LET w == World(p)
            k == Append(d, n)
            r1 == hepunion_rmdir(w, d, n, u1)
            r2 == hepunion_mkdir(r1.w, d, n, \o755, u2)
        IN (/\ Live(p)
            /\ IsDirDentry(w, d)
            /\ ParentGrants(w, d)
            /\ k \in DOMAIN ro /\ ro[k].type = "dir"
            /\ \E e \in Entries(ro, k) : ~is_special(e)
            /\ IsDirDentry(w, k)
            /\ Running(r1.w) /\ r1.ret = 0
            /\ Running(r2.w))
           => /\ r2.ret = 0
              /\ k \in DOMAIN r2.w.rw
              /\ check_exist(r2.w, WhPath(d, n)) < 0
              /\ FirstRead(r2.w, k).ret = 0
              /\ Visible(r2.w, k) = {}

(* the entries the branch br holds for the directory c, "." and ".." left
   out; none when the branch has no directory there *)
Held(w, br, c) ==
    IF c \in DOMAIN Branch(w, [br |-> br, p |-> <<>>])
    THEN {n \in Entries(Branch(w, [br |-> br, p |-> <<>>]), c) : ~is_special(n)}
    ELSE {}

(* the RO directory c takes part in the union: no whiteout on RW hides it *)
RoShown(w, c) == c = <<>> \/ check_exist(w, WhPath(ParentKey(c), c[Len(c)])) < 0

(* (RW entries \ whiteouts \ sidecars) \cup (RO entries that have no
   whiteout on RW and no RW entry of the same name) *)
UnionNames(w, c) ==
    {n \in Held(w, "rw", c) : ~is_whiteout(n) /\ ~is_me(n)}
    \cup {n \in (IF RoShown(w, c) THEN Held(w, "ro", c) ELSE {}) :
              /\ check_exist(w, WhPath(c, n)) < 0
              /\ n \notin Held(w, "rw", c)}

(* C13: a readdir that succeeds lists exactly the names of (RW entries minus
   whiteouts and sidecars) together with (RO entries with no whiteout on RW
   and no RW entry of the same name); it lists no whiteout, no sidecar, and
   no name twice. *)
C13_ReaddirListsUnion ==
    \A p \in Procs, c \in Dirs :
        LET w == World(p)
            r == FirstRead(w, c)
        IN (/\ Live(p)
            /\ IsDirDentry(w, c)
            /\ Opened(w, c).ret = 0
            /\ Running(r.w)
            /\ r.ret = 0)
           => /\ Visible(w, c) = UnionNames(w, c)
              /\ \A n \in Listed(r.h.files) : ~is_whiteout(n) /\ ~is_me(n)
              /\ Cardinality(Listed(r.h.files)) = Len(r.h.files)

(* a whiteout hides an RO entry and a sidecar lies beside an RW entry in a
   directory that readdir lists *)
C13_Witness ==
    \E p \in Procs, c \in Dirs :
        /\ Live(p)
        /\ IsDirDentry(World(p), c)
        /\ Opened(World(p), c).ret = 0
        /\ Running(FirstRead(World(p), c).w)
        /\ FirstRead(World(p), c).ret = 0
        /\ \E n \in Held(World(p), "ro", c) : check_exist(World(p), WhPath(c, n)) = 0
        /\ \E n \in Held(World(p), "rw", c) : is_me(n)
        /\ \E n \in Held(World(p), "rw", c) : ~is_me(n) /\ ~is_whiteout(n)
        /\ Visible(World(p), c) # {}

(* C14: the listing served through one directory handle is fixed at the
   first readdir call on it: while the handle stays open, no call, on the
   handle or on the directory, changes the list the handle serves from. *)
C14_ListingFixed ==
    [][(dirfile.open /\ dirfile.files # <<>> /\ dirfile'.open)
           => dirfile'.files = dirfile.files]_vars

(* the handle has served its whole list while the directory it was opened
   on has come to hold other names than the list *)
C14_Witness ==
    /\ dirfile.open
    /\ dirfile.files # <<>>
    /\ dirfile.f_pos = Len(dirfile.files)
    /\ \E c \in Dirs :
           /\ dirfile.rw_path.p = get_relative_path(c)
           /\ Visible(World(RootProc), c) # {n \in Listed(dirfile.files) : ~is_special(n)}

(* the thread is between a push_root and its pop_root *)
Inside(t) == thr[t].depth > 0

(* the thread is in spin_lock and the lock is held *)
Blocked(t) == thr[t].pc \in {"lock_first", "lock_wait"} /\ id_lock.spin

(* C15: at most one thread at a time is inside a push_root/pop_root section:
   no two threads are inside sections together, and a thread that called
   push_root while another is inside has not come out of
   recursive_mutex_lock. *)
C15_OneThreadInside ==
    \A t \in Procs, u \in Procs : (t # u /\ Inside(t)) => ~Inside(u)

(* one thread is inside a section and the other waits in spin_lock *)
C15_Witness ==
    \E t \in Procs, u \in Procs : t # u /\ Inside(t) /\ Blocked(u) /\ ~Inside(u)

(* C16: a thread that is already inside a push_root section enters a nested
   push_root at once: it never comes to wait in spin_lock. *)
C16_NestedEntersAtOnce ==
    \A t \in Procs : Inside(t) => thr[t].pc # "lock_wait"

(* C17: once the thread inside has left all of its sections the lock is
   free: every thread waiting in spin_lock from outside any section comes to
   be inside its section. *)
C17_BlockedEventuallyEnters ==
    \A t \in Procs : (Blocked(t) /\ ~Inside(t)) ~> Inside(t)

(* the thread opened for writing a file that find_file did not see on the
   read-write branch *)
OpenedFromRo(p) ==
    /\ race[p].pc = "done"
    /\ race[p].flags \cap {O_WRONLY, O_RDWR} # {}
    /\ race[p].rw_err < 0

(* the thread entered an open for writing of a file the read-write branch
   did not hold *)
EnteredFromRo(q) ==
    /\ race[q].pc \in {"resolved", "done"}
    /\ race[q].flags \cap {O_WRONLY, O_RDWR} # {}
    /\ race[q].rw_err < 0

(* C18: when two threads open the same RO-resident P for writing at once,
   one RW copy of P is made and both opens succeed: the one that lost the
   O_EXCL create resolves again and opens the copy. *)
C18_BothOpensSucceed ==
    \A p \in Procs, q \in Procs :
        (p # q /\ OpenedFromRo(p) /\ Live(p) /\ race[p].ret = 0
              /\ EnteredFromRo(q) /\ race[p].comps = race[q].comps
              /\ (race[q].pc = "done" \/ ~Live(q)))
            => /\ Live(q)
               /\ race[q].ret = 0
               /\ check_exist(World(p), make_rw_path(get_relative_path(race[p].comps))) >= 0

(* C19: link(src, dst) with dst absent from the union, when it succeeds:
   a src held by the RO branch only gets, at the RW path of dst, a symbolic
   link whose target is the RO branch path of src; a src held by the RW
   branch gets, at the RW path of dst, another name of the same inode; and
   no whiteout for dst exists afterwards. *)
C19_LinkCreates ==
    \A p \in Procs, c \in Dentries \ Dirs, d \in Dirs, n \in Names, u \in UafOracles :
        LET w == World(p)
            k == Append(d, n)
            r == hepunion_link(w, c, d, n, u)
        IN (/\ Live(p)
            /\ IsDirDentry(w, d)
            /\ ParentGrants(w, d)
            /\ k \notin DOMAIN rw
            /\ (k \in DOMAIN ro => check_exist(w, WhPath(d, n)) = 0)
            /\ \/ c \in DOMAIN rw /\ rw[c].type # "dir"
               \/ /\ c \in DOMAIN ro /\ ro[c].type # "dir" /\ c \notin DOMAIN rw
                  /\ check_exist(w, WhPath(ParentKey(c), c[Len(c)])) < 0
            /\ Running(r.w)
            /\ r.ret = 0)
           => /\ k \in DOMAIN r.w.rw
              /\ IF c \in DOMAIN rw
                 THEN r.w.rw[k].ino = rw[c].ino
                 ELSE /\ r.w.rw[k].type = "lnk"
                      /\ r.w.rw[k].target = make_ro_path(get_relative_path(c))
              /\ check_exist(r.w, WhPath(d, n)) < 0

(* C20: for every entry name that readdir lists for a directory P, the
   inode number readdir reports is H(P/name) and is the st_ino that lookup
   and getattr report for P/name. *)
C20_InodeNumbers ==
    \A p \in Procs, c \in Dirs :
        LET w == World(p)
            r == FirstRead(w, c)
        IN (/\ Live(p)
            /\ IsDirDentry(w, c)
            /\ Opened(w, c).ret = 0
            /\ Running(r.w)
            /\ r.ret = 0)
           => \A i \in 1..Len(r.h.files) :
                  ~is_special(r.h.files[i].d_name)
                      => /\ r.h.files[i].ino = name_to_ino(UnionPath(c, r.h.files[i].d_name))
                         /\ r.h.files[i].ino = hepunion_lookup_ino(c, r.h.files[i].d_name)
                         /\ r.h.files[i].ino = hepunion_getattr_ino(c, r.h.files[i].d_name)

(* C21: on success mkdir adds one to the link count of the parent
   directory's inode, and rmdir and unlink each take one from it. *)
C21_ParentLinkCount ==
    \A p \in Procs, d \in Dirs, n \in Names :
        LET w == World(p)
            k == Append(d, n)
        IN (Live(p) /\ buffers_in_use = 0 /\ IsDirDentry(w, d) /\ ParentGrants(w, d))
           => /\ \A u \in MkdirOracles :
                     LET r == hepunion_mkdir(w, d, n, \o755, u)
                     IN (~Positive(w, k) /\ Running(r.w) /\ r.ret = 0)
                        => r.w.nlink[d] = w.nlink[d] + 1
              /\ \A u \in MeOracles :
                     LET r == hepunion_unlink(w, d, n, u)
                     IN (IsFileDentry(w, k) /\ Running(r.w) /\ r.ret = 0)
                        => r.w.nlink[d] = w.nlink[d] - 1
              /\ \A u \in Oracles :
                     LET r == hepunion_rmdir(w, d, n, u)
                     IN (IsDirDentry(w, k) /\ Running(r.w) /\ r.ret = 0)
                        => r.w.nlink[d] = w.nlink[d] - 1

(* C22: every handler that marks the context's two path buffers in use
   releases them on every return, of success or of an error: between calls,
   with no thread stopped inside a handler, the buffers are not marked in
   use. *)
C22_BuffersReleased == (\A p \in Procs : Live(p)) => buffers_in_use = 0

(* calls have been made and none stopped; from here a handler that marks the
   buffers returns an error and another returns 0 *)
C22_Witness ==
    /\ ncalls > 0
    /\ \A p \in Procs : Live(p)
    /\ \E p \in Procs, d \in Dirs, n \in Names, u \in Oracles :
           /\ IsDirDentry(World(p), Append(d, n))
           /\ will_use_buffers(World(p)).buf = 1
           /\ Running(hepunion_rmdir(World(p), d, n, u).w)
           /\ hepunion_rmdir(World(p), d, n, u).ret < 0
           /\ hepunion_rmdir(World(p), d, n, u).w.buf = 0
           /\ Running(hepunion_opendir(World(p), d).w)
           /\ hepunion_opendir(World(p), d).ret = 0
           /\ hepunion_opendir(World(p), d).w.buf = 0

(* the directory a branch name of the option string stands for *)
Stripped(name) == IF name[Len(name)] = SLASH THEN SubSeq(name, 1, Len(name) - 1) ELSE name

(* the mount succeeded with ro as its read-only and rw as its read-write
   branch *)
MountedOn(ro_name, rw_name) ==
    /\ mnt.err = 0
    /\ mnt.sb.read_only_branch = {Stripped(ro_name)}
    /\ mnt.sb.read_write_branch = {Stripped(rw_name)}

(* C23: for the branch pair (A, B) of the option string: when exactly one
   of them carries a type, the other takes the remaining kind, whichever of
   the two is typed and whichever type it is; when neither carries a type,
   A is the read-only and B the read-write branch; the mount succeeds with
   one read-only and one read-write branch. *)
C23_UntypedTakesTheRest ==
    \A a \in MountNames, b \in MountNames, ta \in {NoType, TYPE_RW, TYPE_RO},
       tb \in {NoType, TYPE_RW, TYPE_RO} :
        (/\ mnt.done
         /\ mnt.arg = MountArg(a, ta, b, tb)
         /\ a[1] = SLASH /\ b[1] = SLASH
         /\ (ta = NoType \/ tb = NoType))
        => IF ta = TYPE_RW \/ tb = TYPE_RO THEN MountedOn(b, a) ELSE MountedOn(a, b)

(* the entries a branch holds at k and beneath it *)
Beneath(fs, k) == {x \in DOMAIN fs : Len(x) >= Len(k) /\ SubSeq(x, 1, Len(k)) = k}

(* C24: when a copy-up, a create or a mkdir of P returns an error, whatever
   it had made on the read-write branch for P is gone: the read-write branch
   holds nothing at P and, for a directory, nothing beneath it.  The failures
   are an I/O error while the content is copied, a failure while a child of
   a directory is copied, a notify_change that fails, a failure of
   hide_directory_contents and a new_inode that fails. *)
C24_FailureLeavesNothing ==
    \A p \in Procs, ft \in Faults :
        (Live(p) /\ buffers_in_use = 0)
        => /\ \A c \in Dentries \ {<<>>} :
                  LET r == find_file(Faulty(World(p), ft), get_relative_path(c), CREATE_COPYUP)
                  IN (/\ Positive(World(p), c)
                      /\ c \notin DOMAIN rw
                      /\ Running(r.w)
                      /\ r.err < 0)
                     => Beneath(r.w.rw, c) = {}
           /\ \A d \in Dirs, n \in Names, u \in UafOracles :
                  LET k == Canon(get_relative_path_for_file(d, n))
                      r == hepunion_create(Faulty(World(p), ft), d, n, \o644, u)
                  IN (/\ IsDirDentry(World(p), d)
                      /\ ~Positive(World(p), Append(d, n))
                      /\ k \notin DOMAIN rw
                      /\ Running(r.w)
                      /\ r.ret < 0)
                     => Beneath(r.w.rw, k) = {}
           /\ \A d \in Dirs, n \in Names, u \in MkdirOracles :
                  LET k == Canon(get_relative_path_for_file(d, n))
                      r == hepunion_mkdir(Faulty(World(p), ft), d, n, \o755, u)
                  IN (/\ IsDirDentry(World(p), d)
                      /\ ~Positive(World(p), Append(d, n))
                      /\ k \notin DOMAIN rw
                      /\ Running(r.w)
                      /\ r.ret < 0)
                     => Beneath(r.w.rw, k) = {}

(* unlink or rmdir of c, asked by p, with the whiteout's hand-over to root
   failing when ft = "attr" *)
Removal(p, c, u, ft) ==
    IF IsFileDentry(World(p), c)
    THEN hepunion_unlink(Faulty(World(p), ft), ParentKey(c), c[Len(c)], u)
    ELSE hepunion_rmdir(Faulty(World(p), ft), ParentKey(c), c[Len(c)], u)

(* c is held by the RO branch only, has a sidecar, and p may remove it *)
RemovableWithSidecar(p, c) ==
    /\ Live(p) /\ buffers_in_use = 0
    /\ Positive(World(p), c)
    /\ c \in DOMAIN ro /\ c \notin DOMAIN rw
    /\ lstat(World(p), MePath(c)).err = 0
    /\ ParentGrants(World(p), ParentKey(c))

(* C25: when unlink or rmdir of an RO-resident P with a sidecar returns an
   error (the whiteout could not be made after the sidecar was removed),
   the sidecar of P exists with the attributes it had before and getattr(P)
   answers as before. *)
C25_SidecarRestored ==
    \A p \in Procs, c \in Dentries \ {<<>>}, u \in MeOracles, ft \in {"none", "attr"} :
        LET r == Removal(p, c, u, ft)
        IN (RemovableWithSidecar(p, c) /\ Running(r.w) /\ r.ret < 0)
           => /\ lstat(r.w, MePath(c)) = lstat(World(p), MePath(c))
              /\ hepunion_getattr(r.w, c).ret = hepunion_getattr(World(p), c).ret
              /\ hepunion_getattr(r.w, c).st = hepunion_getattr(World(p), c).st

(* an unlink whose whiteout could not be handed to root has put the sidecar
   back *)
C25_Witness ==
    \E p \in Procs, c \in Dentries \ {<<>>}, u \in MeOracles :
        /\ RemovableWithSidecar(p, c)
        /\ IsFileDentry(World(p), c)
        /\ Removal(p, c, u, "attr").ret = -EIO
        /\ Removal(p, c, u, "attr").w.fault = "none"
        /\ check_exist(Removal(p, c, u, "attr").w, path_to_special(get_relative_path(c), WH)) < 0
        /\ lstat(Removal(p, c, u, "attr").w, MePath(c)).err = 0

(* C26: in every reachable state a sidecar for P exists only if the RO
   branch holds P and the RW branch holds no entry at P. *)
C26_SidecarOnlyForRoResident ==
    \A p \in Procs, c \in Dentries \ {<<>>} :
        (Live(p) /\ lstat(World(p), MePath(c)).err = 0)
            => (c \in DOMAIN ro /\ c \notin DOMAIN rw)

(* a file with a sidecar is opened for writing: the copy is made and the
   sidecar is gone *)
C26_Witness ==
    \E p \in Procs, c \in Dentries \ Dirs :
        /\ Live(p) /\ buffers_in_use = 0
        /\ IsFileDentry(World(p), c)
        /\ lstat(World(p), MePath(c)).err = 0
        /\ hepunion_open(World(p), c, {O_WRONLY}).ret = 0
        /\ c \in DOMAIN hepunion_open(World(p), c, {O_WRONLY}).w.rw
        /\ lstat(hepunion_open(World(p), c, {O_WRONLY}).w, MePath(c)).err < 0

(* P = d/n is held by the RO branch and hidden by a whiteout *)
Hidden(w, d, n) ==
    /\ Append(d, n) \in DOMAIN w.ro
    /\ Append(d, n) \notin DOMAIN w.rw
    /\ check_exist(w, WhPath(d, n)) = 0

(* the call r that made P succeeded, the whiteout of P is gone and lookup
   finds P on the RW branch *)
Unhidden(r, d, n) ==
    (Running(r.w) /\ r.ret = 0)
        => /\ check_exist(r.w, WhPath(d, n)) < 0
           /\ hepunion_lookup(r.w, d, n).ret = 0
           /\ find_file(r.w, UnionPath(d, n), 0).err = READ_WRITE

(* C27: after create, mkdir, mknod, symlink or link succeeds at a P that a
   whiteout hid, the whiteout of P no longer exists and lookup(P) returns
   the new entry; and unlinking an RW-only P and creating it again
   introduces no whiteout for P. *)
C27_WhiteoutRemoved ==
    \A p \in Procs, d \in Dirs, n \in Names :
        LET w == World(p)
        IN (Live(p) /\ buffers_in_use = 0 /\ IsDirDentry(w, d) /\ ParentGrants(w, d))
           => /\ Hidden(w, d, n)
                  => /\ \A u \in UafOracles :
                            /\ Unhidden(hepunion_create(w, d, n, \o644, u), d, n)
                            /\ Unhidden(hepunion_mknod(w, d, n, "fifo", \o644, u), d, n)
                            /\ \A symname \in SymNames :
                                   Unhidden(hepunion_symlink(w, d, n, symname, u), d, n)
                            /\ \A c \in Dentries \ Dirs :
                                   IsFileDentry(w, c)
                                       => Unhidden(hepunion_link(w, c, d, n, u), d, n)
                     /\ \A u \in MkdirOracles :
                            Unhidden(hepunion_mkdir(w, d, n, \o755, u), d, n)
              /\ \A u1 \in MeOracles, u2 \in UafOracles :
                     LET r1 == hepunion_unlink(w, d, n, u1)
                         r2 == hepunion_create(r1.w, d, n, \o644, u2)
                     IN (/\ Append(d, n) \in DOMAIN rw /\ Append(d, n) \notin DOMAIN ro
                         /\ rw[Append(d, n)].type # "dir"
                         /\ Running(r1.w) /\ r1.ret = 0
                         /\ Running(r2.w) /\ r2.ret = 0)
                        => check_exist(r2.w, WhPath(d, n)) < 0

(* d is a directory the RO branch alone holds and d/n is in neither branch *)
ParentOnRo(w, d, n) ==
    /\ d # <<>>
    /\ d \in DOMAIN w.ro /\ w.ro[d].type = "dir"
    /\ d \notin DOMAIN w.rw
    /\ Append(d, n) \notin DOMAIN w.ro
    /\ Append(d, n) \notin DOMAIN w.rw

(* the call r succeeded; d was made on RW with the RO directory's mode,
   owner and times and holds the new entry and nothing else *)
ParentMade(w, r, d, n) ==
    Running(r.w)
        => /\ r.ret = 0
           /\ d \in DOMAIN r.w.rw
           /\ Stat(r.w.rw[d]) = Stat(w.ro[d])
           /\ Beneath(r.w.rw, d) = {d, Append(d, n)}

(* C28: create, mkdir, mknod, symlink and link at a P whose parent exists on
   the RO branch only succeed for a permitted caller: the parent is made on
   the RW branch with the RO directory's mode, owner and times and none of
   its contents, and the entry is made at the RW path of P. *)
C28_ParentsCreated ==
    \A p \in Procs, d \in Dirs, n \in Names :
        LET w == World(p)
        IN (/\ Live(p) /\ buffers_in_use = 0
            /\ IsDirDentry(w, d) /\ ParentGrants(w, d)
            /\ ParentOnRo(w, d, n))
           => /\ \A u \in UafOracles :
                     /\ ParentMade(w, hepunion_create(w, d, n, \o644, u), d, n)
                     /\ ParentMade(w, hepunion_mknod(w, d, n, "fifo", \o644, u), d, n)
                     /\ \A symname \in SymNames :
                            ParentMade(w, hepunion_symlink(w, d, n, symname, u), d, n)
                     /\ \A c \in Dentries \ Dirs :
                            IsFileDentry(w, c)
                                => ParentMade(w, hepunion_link(w, c, d, n, u), d, n)
              /\ \A u \in MkdirOracles :
                     ParentMade(w, hepunion_mkdir(w, d, n, \o755, u), d, n)

(* the union paths find_path is asked for: every name in every directory,
   and in a directory neither branch holds *)
Nowhere == << <<"q">> >>

AskedPaths == {get_relative_path(Append(d, n)) : d \in Dirs \cup {Nowhere}, n \in Names}

(* the parent of path does not resolve in the union *)
ParentUnresolved(w, path) == find_file(w, SubSeq(path, 1, LastSlash(path)), 0).err < 0

(* C29: find_path(P) returns 0 on success and a negative error otherwise;
   when the parent of P does not resolve in the union it returns a negative
   error, which is what makes its callers stop. *)
C29_FindPathResult ==
    \A p \in Procs, path \in AskedPaths :
        LET r == find_path(World(p), path, NoPath)
        IN (Live(p) /\ buffers_in_use = 0 /\ Running(r.w))
           => /\ r.err <= 0
              /\ ParentUnresolved(World(p), path) => r.err < 0

(* the directories a path of two names passes through below the root *)
TopDirs == {<<n>> : n \in Names}

(* the caller may search c, by the attributes the union reports for c *)
MaySearch(w, c) == can_access_st(w, hepunion_getattr(w, c).st, MAY_EXEC) = 0

(* C30: for a P whose prefix directory exists in the union, on either
   branch, can_traverse(P) grants exactly when the caller has execute
   permission on the effective attributes of that directory. *)
C30_TraverseIffExec ==
    \A p \in Procs, c \in TopDirs, n \in Names :
        LET w == World(p)
        IN (/\ Live(p) /\ buffers_in_use = 0
            /\ IsDirDentry(w, c)
            /\ hepunion_getattr(w, c).ret = 0)
           => (can_traverse(w, get_relative_path(Append(c, n))) = 0 <=> MaySearch(w, c))

(* the VFS adds to the access bits what kind of access is made: an append
   (O_APPEND) and an open *)
MAY_APPEND == 8
MAY_OPEN == 32

PermissionMasks ==
    {acc + kind : acc \in 1..(MAY_READ + MAY_WRITE + MAY_EXEC),
                  kind \in {0, MAY_APPEND, MAY_OPEN, MAY_APPEND + MAY_OPEN}}

(* the read, write and execute bits that apply to the caller: the owner's
   when the caller owns the file, else the group's when the groups match,
   else the others' *)
Triad(w, st) ==
    IF w.uid = st.uid THEN (st.mode \div 64) % 8
    ELSE IF w.gid = st.gid THEN (st.mode \div 8) % 8
    ELSE st.mode % 8

AnyExec(st) == \E sh \in {1, 8, 64} : BitAnd(MAY_EXEC * sh, st.mode) # 0

(* what the claim grants for the read, write and execute bits rwx asked *)
MayAccess(w, st, rwx) ==
    IF w.uid = 0 THEN BitAnd(rwx, MAY_EXEC) = 0 \/ AnyExec(st)
    ELSE BitAnd(rwx, Triad(w, st)) = rwx

(* C31: for every mask the permission operation is called with, root is
   granted unless execute is asked and no execute bit is set, and any other
   caller is granted exactly when every read, write and execute bit asked
   is set in the triad that applies to the caller, on the effective
   attributes of P. *)
C31_CanAccess ==
    \A p \in Procs, c \in Dentries, mask \in PermissionMasks :
        LET w == World(p)
            r == hepunion_permission(w, c, mask)
        IN (/\ Live(p) /\ buffers_in_use = 0
            /\ Positive(w, c)
            /\ hepunion_getattr(w, c).ret = 0
            /\ Running(r.w))
           => (r.ret = 0 <=> MayAccess(w, hepunion_getattr(w, c).st, mask % 8))

(* C32: setattr on an RO-resident P that has a sidecar changes, on the
   sidecar, the fields the delta holds and no other: each of mode, uid,
   gid, atime, mtime outside the delta keeps its sidecar value. *)
C32_SetattrKeepsSidecarFields ==
    \A p \in Procs, c \in Dentries, dl \in Deltas :
        LET w == World(p)
            r == hepunion_setattr(w, c, dl.valid, dl.attr)
        IN (/\ Live(p) /\ buffers_in_use = 0
            /\ c # <<>> /\ Positive(w, c)
            /\ c \in DOMAIN ro /\ c \notin DOMAIN rw
            /\ find_file(w, get_relative_path(c), 0).err = READ_ONLY
            /\ check_exist(w, MePath(c)) = 0
            /\ OwnerOrRoot(w, Resolved(w, c), dl)
            /\ Running(r.w)
            /\ r.ret = 0)
           => /\ check_exist(r.w, MePath(c)) = 0
              /\ \A f \in MeAttrs :
                     Node(r.w.rw, MePath(c).p)[f] =
                         IF f \in dl.valid THEN dl.attr[f]
                         ELSE Node(w.rw, MePath(c).p)[f]

(* ---- two lookups at once ----
   Each of two root processes looks one name up once.  hepunion_lookup is
   taken step by step: its entry, find_file, the read of the list head,
   the stores of list_add, iget_locked with the read_inode it triggers,
   list_del and the return.  context->global1 and the list are read and
   written with no lock held. *)
Store(list, e, f, v) == IF e \in Contexts THEN [list EXCEPT ![e][f] = v] ELSE list

(* ctx = kmalloc(...); ctx->ino = ino; memcpy(ctx->name, path, ...) *)
kmalloc_ctx(list, e, path) ==
    [list EXCEPT ![e].ino = name_to_ino(path), ![e].name = path, ![e].freed = FALSE]

(* next->prev = new; new->next = next; new->prev = prev; prev->next = new *)
list_add(list, new, next) ==
    Store(Store(Store(Store(list, next, "prev", new), new, "next", next),
                new, "prev", HEAD),
          HEAD, "next", new)

(* next->prev = prev; prev->next = next; the entry is poisoned *)
list_del(list, e) ==
    Store(Store(Store(Store(list, list[e].next, "prev", list[e].prev),
                      list[e].prev, "next", list[e].next),
                e, "next", LIST_POISON),
          e, "prev", LIST_POISON)

kfree(list, e) == [list EXCEPT ![e].freed = TRUE]

NotFound == [found |-> FALSE, name |-> <<>>]

(* hepunion_read_inode: the first entry of the list with the number of the
   inode gives the path *)
RECURSIVE read_inode_walk(_, _, _, _)
read_inode_walk(list, entry, ino, fuel) ==
    IF entry = HEAD \/ entry \notin Contexts \/ fuel = 0 THEN NotFound
    ELSE IF list[entry].ino = ino THEN [found |-> TRUE, name |-> list[entry].name]
    ELSE read_inode_walk(list, list[entry].next, ino, fuel - 1)

hepunion_read_inode(list, ino) ==
    read_inode_walk(list, list[HEAD].next, ino, Cardinality(Contexts))

LookupAsked(p, d, seen) == hepunion_permission(RaceWorld(p, seen), d, MAY_EXEC)

(* will_use_buffers(context); get_relative_path_for_file(dir, dentry, context, path, 1) *)
LookupEnter ==
    \E p \in Procs, d \in Dirs, n \in Names, seen \in FlagSeen :
        /\ Live(p) /\ lookups.at[p].pc = "idle" /\ IsDirDentry(World(p), d)
        /\ Granted(LookupAsked(p, d, seen))
        /\ ReturnedAt(p, [w |-> will_use_buffers(LookupAsked(p, d, seen).w)], ncalls)
        /\ lookups' = IF Running(will_use_buffers(LookupAsked(p, d, seen).w))
                      THEN [lookups EXCEPT !.global1 = get_relative_path_for_file(d, n),
                                           !.at[p].pc = "path",
                                           !.at[p].dir = d,
                                           !.at[p].name = n]
                      ELSE lookups
        /\ UNCHANGED <<dirfile, race>>

(* err = find_file(path, real_path, context, 0); a miss returns at once *)
LookupFind ==
    \E p \in Procs :
        /\ Live(p) /\ lookups.at[p].pc = "path"
        /\ IF find_file(World(p), lookups.global1, 0).err < 0
           THEN /\ ReturnedAt(p, hepunion_lookup_found(find_file(World(p), lookups.global1, 0)),
                              ncalls + 1)
                /\ lookups' = [lookups EXCEPT
                                  !.at[p].pc = "done",
                                  !.at[p].ret = hepunion_lookup_found(
                                                    find_file(World(p), lookups.global1, 0)).ret]
           ELSE /\ ReturnedAt(p, [w |-> find_file(World(p), lookups.global1, 0).w], ncalls)
                /\ lookups' = [lookups EXCEPT
                                  !.at[p].pc = "ctx",
                                  !.list = kmalloc_ctx(lookups.list, p, lookups.global1)]
        /\ UNCHANGED <<dirfile, race>>

(* list_add(&ctx->read_inode_entry, &context->read_inode_head): head->next
   is read *)
LookupListRead ==
    \E p \in Procs :
        /\ Live(p) /\ lookups.at[p].pc = "ctx"
        /\ lookups' = [lookups EXCEPT !.at[p].pc = "link",
                                      !.at[p].first = lookups.list[HEAD].next]
        /\ UNCHANGED <<ro, rw, cred, ctx, id_lock, halted, ncalls, dirfile, thr, race, nlink,
                       mnt, buffers_in_use>>

(* ... and the entry is linked in front of what was read *)
LookupListLink ==
    \E p \in Procs :
        /\ Live(p) /\ lookups.at[p].pc = "link"
        /\ lookups' = [lookups EXCEPT
                          !.at[p].pc = "iget",
                          !.list = list_add(lookups.list, p, lookups.at[p].first)]
        /\ UNCHANGED <<ro, rw, cred, ctx, id_lock, halted, ncalls, dirfile, thr, race, nlink,
                       mnt, buffers_in_use>>

(* inode = iget_locked(dir->i_sb, ino): the inode is new and read_inode
   fills it *)
LookupIget ==
    \E p \in Procs :
        /\ Live(p) /\ lookups.at[p].pc = "iget"
        /\ lookups' = [lookups EXCEPT
                          !.at[p].pc = "del",
                          !.at[p].read = hepunion_read_inode(lookups.list,
                                                             lookups.list[p].ino).found,
                          !.at[p].found = hepunion_read_inode(lookups.list,
                                                              lookups.list[p].ino).name]
        /\ UNCHANGED <<ro, rw, cred, ctx, id_lock, halted, ncalls, dirfile, thr, race, nlink,
                       mnt, buffers_in_use>>

(* list_del(&ctx->read_inode_entry); kfree(ctx) *)
LookupListDel ==
    \E p \in Procs :
        /\ Live(p) /\ lookups.at[p].pc = "del"
        /\ lookups' = [lookups EXCEPT !.at[p].pc = "free",
                                      !.list = kfree(list_del(lookups.list, p), p)]
        /\ UNCHANGED <<ro, rw, cred, ctx, id_lock, halted, ncalls, dirfile, thr, race, nlink,
                       mnt, buffers_in_use>>

(* release_buffers(context); return NULL *)
LookupReturn ==
    \E p \in Procs :
        /\ Live(p) /\ lookups.at[p].pc = "free"
        /\ ReturnedAt(p, Ret(World(p), 0), ncalls + 1)
        /\ lookups' = [lookups EXCEPT !.at[p].pc = "done", !.at[p].ret = 0]
        /\ UNCHANGED <<dirfile, race>>

LookupNext ==
    \/ LookupEnter \/ LookupFind \/ LookupListRead \/ LookupListLink \/ LookupIget
    \/ LookupListDel \/ LookupReturn

LookupSpec == Mounted(RootCred) /\ [][LookupNext]_vars

(* the entries reached from the head of the list *)
RECURSIVE Linked(_, _, _)
Linked(list, entry, fuel) ==
    IF entry = HEAD \/ entry \notin Contexts \/ fuel = 0 THEN {}
    ELSE {entry} \cup Linked(list, list[entry].next, fuel - 1)

InProgress(p) == lookups.at[p].pc \in {"iget", "del"}

Asking(p) == get_relative_path_for_file(lookups.at[p].dir, lookups.at[p].name)

(* C33: the list of read_inode contexts holds exactly the contexts of the
   lookups that have added theirs and not yet returned, and read_inode
   recovers the path of the lookup whose iget_locked triggered it, also
   with two lookups running at once. *)
C33_LookupContexts ==
    /\ Linked(lookups.list, lookups.list[HEAD].next, Cardinality(Contexts))
           = {p \in Procs : Live(p) /\ InProgress(p)}
    /\ \A p \in Procs :
           (Live(p) /\ lookups.at[p].pc = "del")
               => lookups.at[p].read /\ lookups.at[p].found = Asking(p)

Holding(p) == Live(p) /\ lookups.at[p].pc \notin {"idle", "done"}

(* C36: the two path buffers of the mount are held by at most one running
   operation: of two lookups on different threads never both are between
   will_use_buffers and release_buffers, none stops on the assertion of
   will_use_buffers or release_buffers, and the path a lookup reads back
   from the buffer is the one it built. *)
C36_BuffersHeldByOne ==
    /\ \A p \in Procs, q \in Procs : (Holding(p) /\ Holding(q)) => p = q
    /\ \A p \in Procs : halted[p] # "bug"
    /\ \A p \in Procs : (Holding(p) /\ lookups.at[p].pc = "path") => lookups.global1 = Asking(p)

(* no operation is running and the lock is free *)
Quiet(p) == Live(p) /\ buffers_in_use = 0 /\ id_lock.cnt = 0

(* the helper came back with the lock as deep as it found it *)
Balanced(w, v) == v.halt # "hang" /\ (Running(v) => v.cnt = w.cnt)

(* a read-only branch with a directory below d *)
DeepDir == << <<"d">>, <<"a">> >>

Deep(w) == [w EXCEPT !.ro = Put(w.ro, DeepDir, Dir(5, \o755, 0))]

(* C34: every helper returns with as many pop_root as push_root on each of
   its paths, none pops what it did not push, and the depth of id_lock is
   zero whenever no operation is running. *)
C34_PushPopBalanced ==
    /\ (\A p \in Procs : Live(p)) => id_lock.cnt = 0
    /\ \A p \in Procs, c \in Dentries \ {<<>>} :
           Quiet(p)
               => /\ Balanced(World(p), find_path(World(p), get_relative_path(c), NoPath).w)
                  /\ Balanced(World(p),
                              dbg_mknod(World(p), make_rw_path(get_relative_path(c)),
                                        "fifo", \o644).w)
                  /\ \A t \in SymNames :
                         Balanced(World(p),
                                  symlink(World(p), t,
                                          make_rw_path(get_relative_path(c))).w)
    /\ \A p \in Procs, n \in Names :
           Quiet(p)
               => Balanced(World(p),
                           find_path(Deep(World(p)), get_relative_path(Append(DeepDir, n)),
                                     NoPath).w)

(* ---- a copy-up and an open at once ----
   One thread opens a file of the read-only branch for writing; its
   create_copyup is taken in three steps: the new file is created on the
   read-write branch, the content is streamed into it, the attributes are
   set.  Another thread opens a file in one step.  No lock is held across
   create_copyup. *)
CopyupRwFd(w, path) ==
    dbg_open_2(dbg_open(find_path(as_root(w), path, make_rw_path(path)).w,
                        make_ro_path(path), {}).w,
               make_rw_path(path), {O_CREAT, O_WRONLY, O_EXCL},
               get_file_attr_worker(w, path, make_ro_path(path)).st.mode)

(* find_file goes to create_copyup and create_copyup to its O_CREAT *)
CopyupReaches(w, path) ==
    /\ Running(w)
    /\ check_exist(w, make_rw_path(path)) < 0
    /\ ro_hidden(w, path, CREATE_COPYUP) >= 0
    /\ get_file_attr_worker(w, path, make_ro_path(path)).err >= 0
    /\ get_file_attr_worker(w, path, make_ro_path(path)).st.type = "reg"
    /\ find_path(as_root(w), path, make_rw_path(path)).err >= 0
    /\ CopyupRwFd(w, path).err >= 0
    /\ Running(CopyupRwFd(w, path).w)

(* rw_fd = open_worker_2(rw_path, context, O_CREAT | O_WRONLY | O_EXCL, kstbuf.mode) *)
CopyRaceCreate ==
    \E p \in Procs, c \in Dentries, seen \in FlagSeen :
        /\ Live(p) /\ race[p].pc = "idle" /\ IsFileDentry(World(p), c)
        /\ Granted(RaceAsked(p, c, {O_WRONLY}, seen))
        /\ CopyupReaches(will_use_buffers(RaceAsked(p, c, {O_WRONLY}, seen).w),
                         get_relative_path(c))
        /\ ReturnedAt(p, CopyupRwFd(will_use_buffers(RaceAsked(p, c, {O_WRONLY}, seen).w),
                                    get_relative_path(c)),
                      ncalls)
        /\ race' = [race EXCEPT ![p] = [pc |-> "created", comps |-> c, flags |-> {O_WRONLY},
                                        rw_err |-> -ENOENT, ret |-> 0]]
        /\ UNCHANGED <<dirfile, lookups>>

(* the loop of vfs_read and vfs_write, then filp_close *)
CopyRaceFill ==
    \E p \in Procs :
        /\ Live(p) /\ race[p].pc = "created"
        /\ ReturnedAt(p, copyup_data([w |-> World(p), err |-> 0],
                                     make_ro_path(get_relative_path(race[p].comps)),
                                     make_rw_path(get_relative_path(race[p].comps))),
                      ncalls)
        /\ race' = [race EXCEPT ![p].pc = "filled"]
        /\ UNCHANGED <<dirfile, lookups>>

CopyRaceOpened(w, path, flags) ==
    hepunion_open_found(
        find_file_copyup(copyup_made([w |-> w, err |-> 0], path, make_rw_path(path),
                                     get_file_attr_worker(w, path, make_ro_path(path)).st)),
        path, flags)

(* notify_change with the attributes of the RO file, the sidecar removed,
   and hepunion_open goes on with the copy *)
CopyRaceFinish ==
    \E p \in Procs :
        /\ Live(p) /\ race[p].pc = "filled"
        /\ ReturnedAt(p, CopyRaceOpened(World(p), get_relative_path(race[p].comps),
                                        race[p].flags),
                      ncalls + 1)
        /\ race' = [race EXCEPT
                       ![p].pc = "done",
                       ![p].ret = CopyRaceOpened(World(p), get_relative_path(race[p].comps),
                                                 race[p].flags).ret]
        /\ UNCHANGED <<dirfile, lookups>>

(* an open for reading; rw_err is what find_file's check of the read-write
   branch gave it *)
CopyRaceRead ==
    \E q \in Procs, c \in Dentries, seen \in FlagSeen :
        /\ Live(q) /\ race[q].pc = "idle" /\ IsFileDentry(World(q), c)
        /\ Granted(RaceAsked(q, c, {}, seen))
        /\ ReturnedAt(q, hepunion_open(RaceAsked(q, c, {}, seen).w, c, {}), ncalls + 1)
        /\ race' = [race EXCEPT ![q] =
                        [pc |-> "read", comps |-> c, flags |-> {},
                         rw_err |-> check_exist(World(q), make_rw_path(get_relative_path(c))),
                         ret |-> hepunion_open(RaceAsked(q, c, {}, seen).w, c, {}).ret]]
        /\ UNCHANGED <<dirfile, lookups>>

CopyRaceNext == CopyRaceCreate \/ CopyRaceFill \/ CopyRaceFinish \/ CopyRaceRead

CopyRaceSpec == Mounted(RootCred) /\ [][CopyRaceNext]_vars

CopyingUp(p) == Live(p) /\ race[p].pc \in {"created", "filled"}

(* C35: no thread finds P on the read-write branch and opens it there while
   the copy-up of P by another thread has created the entry and not yet
   copied the content and set the attributes. *)
C35_NoOpenDuringCopyup ==
    \A p \in Procs, q \in Procs :
        (p # q /\ CopyingUp(p))
            => ~(/\ race[q].pc = "read" /\ race[q].comps = race[p].comps
                 /\ race[q].rw_err >= 0 /\ race[q].ret = 0 /\ Live(q))

(* branches as an earlier use left them: the directory d of the RO branch
   is empty, the RW one holds the whiteout of an entry x, and the root of
   the RW branch holds a file of the name d.wh.x *)
StaleWh == << <<"d">>, <<WH, "x">> >>

Namesake == << <<"d", WH, "x">> >>

Stale(w) ==
    [w EXCEPT !.ro = Del(@, << <<"d">>, <<"x">> >>),
              !.rw = Put(Put(@, StaleWh, File(6, S_IRUSR, 0, <<>>)),
                         Namesake, File(7, \o644, 0, <<5>>))]

NoGarbage == [uaf |-> "intact", stack |-> "alive", has_me |-> FALSE, kst |-> NoStat]

(* C37: an rmdir(P) that leaves P where it is (an error is returned, or the
   whiteout is not made, or the rmdir of the branch fails) leaves both
   branches as they were: no whiteout inside P and no other entry is gone. *)
C37_FailedRmdirKeepsView ==
    \A p \in Procs, ft \in {"none", "attr"} :
        LET w == Stale(World(p))
            r == hepunion_rmdir(Faulty(w, ft), <<>>, <<"d">>, NoGarbage)
        IN (/\ Live(p) /\ buffers_in_use = 0
            /\ << <<"d">> >> \in DOMAIN rw
            /\ IsDirDentry(w, << <<"d">> >>) /\ ParentGrants(w, <<>>)
            /\ Running(r.w)
            /\ << <<"d">> >> \in DOMAIN r.w.rw)
           => r.w.rw = w.rw /\ r.w.ro = w.ro

(* C38: after mkdir makes a directory D that the RO branch does not hold and
   create makes f in it, lookup, getattr and open of D/f succeed for the
   caller, who owns D and may search it. *)
C38_NewDirEntryResolves ==
    \A p \in Procs, n \in Names, f \in Names, u \in MkdirOracles, v \in UafOracles :
        LET w == World(p)
            m == hepunion_mkdir(w, <<>>, n, \o755, u)
            c == hepunion_create(m.w, <<n>>, f, \o644, v)
        IN (/\ Live(p) /\ buffers_in_use = 0
            /\ ParentGrants(w, <<>>)
            /\ ~Positive(w, <<n>>) /\ <<n>> \notin DOMAIN w.ro
            /\ Running(m.w) /\ m.ret = 0
            /\ Running(c.w) /\ c.ret = 0)
           => /\ hepunion_lookup(c.w, <<n>>, f).ret = 0
              /\ find_file(c.w, get_relative_path_for_file(<<n>>, f), 0).err >= 0
              /\ hepunion_getattr(c.w, <<n, f>>).ret = 0
              /\ hepunion_open(c.w, <<n, f>>, {}).ret = 0

(* the names of the model and the name dx *)
ClashNames == Names \cup {<<"d", "x">>}

(* C39: for every directory D and name n the handlers that take a
   directory and a name (lookup, create, unlink), readdir and the emptiness
   check of rmdir all work on the path D/n, and two different pairs of a
   directory and a name never give the same path. *)
C39_OnePathPerEntry ==
    /\ \A d \in Dirs, n \in ClashNames :
           /\ get_relative_path_for_file(d, n) = get_relative_path(Append(d, n))
           /\ readdir_file(make_rw_path(get_relative_path(d)), n, "reg").ino
                  = name_to_ino(get_relative_path(Append(d, n)))
           /\ \A p \in Procs :
                  check_whiteout(World(p), get_relative_path(d), n, "intact")
                      = find_whiteout(World(p), get_relative_path(Append(d, n)))
    /\ \A d \in Dirs, e \in Dirs, n \in ClashNames, m \in ClashNames :
           <<d, n>> # <<e, m>>
               => get_relative_path_for_file(d, n) # get_relative_path_for_file(e, m)

(* the entry n the call r made in the root is removed again by the same
   caller, and the root has the link count it had in w *)
Undone(w, r, n, u) ==
    (Running(r.w) /\ r.ret = 0)
        => \A rm \in {IF IsDirDentry(r.w, <<n>>) THEN hepunion_rmdir(r.w, <<>>, n, u)
                      ELSE hepunion_unlink(r.w, <<>>, n, u)} :
               (Running(rm.w) /\ rm.ret = 0) => rm.w.nlink[<<>>] = w.nlink[<<>>]

(* C40: an entry made by create, mknod, symlink, link or mkdir and removed
   again by unlink or rmdir leaves the link count of the parent directory
   as it was before the entry was made. *)
C40_LinkCountRestored ==
    \A p \in Procs, n \in Names, u \in UafOracles :
        LET w == World(p)
        IN (/\ Live(p) /\ buffers_in_use = 0
            /\ ParentGrants(w, <<>>) /\ ~Positive(w, <<n>>))
           => /\ Undone(w, hepunion_create(w, <<>>, n, \o644, u), n, u)
              /\ Undone(w, hepunion_mknod(w, <<>>, n, "fifo", \o644, u), n, u)
              /\ \A t \in SymNames : Undone(w, hepunion_symlink(w, <<>>, n, t, u), n, u)
              /\ \A c \in Dentries \ Dirs :
                     IsFileDentry(w, c) => Undone(w, hepunion_link(w, c, <<>>, n, u), n, u)
              /\ \A v \in MkdirOracles :
                     Undone(w, hepunion_mkdir(w, <<>>, n, \o755, v), n, u)

====
